---- MODULE Spec2Model ----
(***************************************************************************)
(* Model of the protocol execution engine (sequencing_protocol.py), the    *)
(* HAL client (hal.py) and the sequencing worker and its UI handlers       *)
(* (sequencing_ui.py).                                                     *)
(***************************************************************************)
EXTENDS Integers, Sequences, FiniteSets, TLC

----------------------------------------------------------------------------
(* Bounds of the model.                                                    *)

\* Largest number of nodes of a protocol description that is run.
MaxNodes == 3
\* Largest number of nodes of a protocol description in the loader harness.
MaxLoadNodes == 4
\* Largest "iterations" of a Group / ReactionCycle.
MaxIterations == 2
\* Largest number of images an ImageSequence declares.
MaxImages == 2
\* Wait durations of the wait harness run from 0 to MaxWaitHalves half
\* slices (of 500 ms each).
MaxWaitHalves == 20
\* Largest number of timed-out reads of one unbounded poll loop.
MaxPolls == 1
\* Largest "tries" disable_heater is called with in the heater harness.
MaxTries == 3
\* Largest number of get_next_sequence_number calls in the counter harness.
MaxCalls == 4
\* Largest "reserve" argument in the counter harness.
MaxReserve == 3
MaxContexts == 3
MaxStepIndex == 1
MaxResponses == 2
MaxPayload == 3
MaxFrames == 2
MaxConnections == 2
\* Number of runs of one tree in the rerun harness.
MaxRuns == 2
\* Largest "tries" run_command is called with in the poll harness.
MaxBudget == 6

----------------------------------------------------------------------------
(* Values.                                                                 *)

\* Python's None for object-valued fields (hal, thread, callback, exception).
None == "None"
\* Python's None for Optional[int] fields (step_index, iteration).
NoneInt == -1
\* Wait.run: min(remaining_duration, 1000).
SliceMs == 1000
\* Hal.disable_heater(self, thread, tries=5).
DefaultHeaterTries == 5

Min(a, b) == IF a < b THEN a ELSE b

RECURSIVE SumSeq(_)
SumSeq(s) == IF s = <<>> THEN 0 ELSE Head(s) + SumSeq(Tail(s))

IsPrefix(s, t) == Len(s) <= Len(t) /\ SubSeq(t, 1, Len(s)) = s

----------------------------------------------------------------------------
(* Protocol descriptions: the JSON a protocol file holds.  A description   *)
(* is a record; the arguments a kind does not use are left at their blank  *)
(* value.                                                                  *)

ContainerTypes == {"Group", "ReactionCycle"}

Desc(type, events, iterations, duration_ms, images) ==
    [event_type |-> type, events |-> events, iterations |-> iterations,
     duration_ms |-> duration_ms, images |-> images]

WaitDesc(ms) == Desc("Wait", <<>>, 1, ms, 0)
ImageSequenceDesc(m) == Desc("ImageSequence", <<>>, 1, 0, m)
SetTemperatureDesc == Desc("SetTemperature", <<>>, 1, 0, 0)

\* The leaves of the descriptions the run harnesses draw from.
LeafDescs ==
    {WaitDesc(SliceMs + SliceMs \div 2), ImageSequenceDesc(0),
     ImageSequenceDesc(MaxImages), SetTemperatureDesc}

RECURSIVE DescsOfSize(_, _)
RECURSIVE ForestsOfSize(_, _)
\* Every sequence of descriptions with n nodes in all.
ForestsOfSize(leaves, n) ==
    IF n = 0 THEN {<<>>}
    ELSE UNION {{<<t>> \o f : t \in DescsOfSize(leaves, k),
                              f \in ForestsOfSize(leaves, n - k)} : k \in 1..n}
\* Every description with exactly n nodes.
DescsOfSize(leaves, n) ==
    IF n = 1 THEN leaves
    ELSE {Desc(type, events, iterations, 0, 0) :
            type \in ContainerTypes,
            events \in ForestsOfSize(leaves, n - 1),
            iterations \in 1..MaxIterations}

Descriptions == UNION {DescsOfSize(LeafDescs, n) : n \in 1..MaxNodes}

----------------------------------------------------------------------------
(* load_protocol_json.                                                     *)

Event(kind, line, depth, events, iterations, duration_ms, images) ==
    [kind |-> kind, protocol_line |-> line, protocol_depth |-> depth,
     events |-> events, iterations |-> iterations,
     duration_ms |-> duration_ms, images |-> images]

RECURSIVE load_protocol_json(_, _, _)
RECURSIVE LoadChildren(_, _, _, _)

\* What a call that raised e hands back in place of a value.
Raised(e) == [raised |-> e]
IsRaised(value) == "raised" \in DOMAIN value

\* A faulty variant (C25): the last branch builds a leaf of whatever type.
LoadsAsLeaf_any(event_type) == TRUE

\* The "elif" branches of the leaf classes; any other event_type reaches
\* "else: raise ValueError".
LoadsAsLeaf(event_type) == event_type \in {"ImageSequence", "SetTemperature", "Wait"}

\* A faulty variant (C9): the sibling after a subtree is numbered as if
\* the subtree were one node.
NextSiblingLine_ignoring_subtree(next_protocol_line, child_len) == next_protocol_line + 1

\* The "for event_json in args["events"]" loop: acc carries children,
\* next_protocol_line and event_len.
\* next_protocol_line += child_len
NextSiblingLine(next_protocol_line, child_len) == next_protocol_line + child_len

LoadChildren(events_json, depth, i, acc) ==
    IF i > Len(events_json) THEN acc
    ELSE LET loaded == load_protocol_json(events_json[i], acc.next_protocol_line, depth + 1)
         IN  IF IsRaised(loaded[1])
             THEN [acc EXCEPT !.raised = loaded[1].raised]
             ELSE LoadChildren(events_json, depth, i + 1,
                      [children |-> Append(acc.children, loaded[1]),
                       next_protocol_line |-> NextSiblingLine(acc.next_protocol_line, loaded[2]),
                       event_len |-> acc.event_len + loaded[2],
                       raised |-> None])

\* Returns <<event, event_len>>, or <<Raised(e), 0>> when the call, or the
\* call for a descendant, raised e: the loops hold no try/except.
load_protocol_json(protocol_json, protocol_line, depth) ==
    IF protocol_json.event_type \in ContainerTypes
    THEN LET acc == LoadChildren(protocol_json.events, depth, 1,
                        [children |-> <<>>,
                         next_protocol_line |-> protocol_line + 1,
                         event_len |-> 1,
                         raised |-> None])
         IN  IF acc.raised # None THEN <<Raised(acc.raised), 0>>
             ELSE <<Event(protocol_json.event_type, protocol_line, depth, acc.children,
                          protocol_json.iterations, 0, 0), acc.event_len>>
    ELSE IF LoadsAsLeaf(protocol_json.event_type)
    THEN <<Event(protocol_json.event_type, protocol_line, depth, <<>>, 1,
                 protocol_json.duration_ms, protocol_json.images), 1>>
    ELSE <<Raised("ValueError"), 0>>

\* Event.__iter__ of the container classes: the pre-order walk of a tree.
RECURSIVE Nodes(_)
RECURSIVE NodesOfAll(_)
NodesOfAll(events) ==
    IF events = <<>> THEN <<>> ELSE Nodes(Head(events)) \o NodesOfAll(Tail(events))
Nodes(event) == <<event>> \o NodesOfAll(event.events)

----------------------------------------------------------------------------
(* State.                                                                  *)

VARIABLES
    harness,                \* who builds the RunContext: "worker", "main", "engine"
    hal,                    \* the IHal of the run: "Hal", "MockHal" or None
    protocol,               \* the loaded root Event (NoProtocol before a load)
    phase,                  \* position of the code that calls protocol.run
    interruptionRequested,  \* QThread.isInterruptionRequested() of the cancel token
    stack,                  \* the active Event.run calls, root first
    run_state,              \* the RunState of the run
    exc,                    \* the exception protocol.run ended with (None: none)
    result,                 \* the status ProtocolThread.run emitted with finished
    callback,               \* whether the root's event_run_callback is registered
    progressLog,            \* the contexts handed to the callback in this run
    commandLog,             \* the commands sent to the HAL socket by steps in this run
    sleepLog,               \* the sleeps of Wait steps in this run
    trace,                  \* run() calls, notifications and commands of this run, in order
    heater,                 \* the disable_heater call
    ui,                     \* buttons and status text of SequencingUi
    calls,                  \* what the calls of a function harness returned
    imaging_args,           \* the image dicts of imaging_args["images"], per step of the tree
    heap,                   \* the RunContextNode objects of the context harness
    contexts,               \* the RunContext objects of that harness: paths of references
    preview                 \* the PreviewThread, its socket and the peer's stream

vars == <<harness, hal, protocol, phase, interruptionRequested, stack, run_state,
          exc, result, callback, progressLog, commandLog, sleepLog, trace, heater,
          ui, calls, heap, contexts, preview, imaging_args>>

NoProtocol == Event("None", 0, 0, <<>>, 0, 0, 0)

\* The "filename" entry of an image dict, by the sequence number and the
\* cycle number it is formatted from; a dict as loaded has no such entry.
Filename(sequence_number, cycle_number) ==
    [sequence_number |-> sequence_number, cycle_number |-> cycle_number]
NoFilename == Filename(NoneInt, NoneInt)

\* The image dicts of a tree as load_protocol_json returns it, by the
\* pre-order position of the step.
ImagingArgsOf(event) ==
    [i \in 1..Len(Nodes(event)) |->
        [j \in 1..Nodes(event)[i].images |-> NoFilename]]

\* RunState(): sequence_number = 0, cycle_number = 0.
RunState == [sequence_number |-> 0, cycle_number |-> 0]

\* The tries=float("inf") default of run_command.
Infinity == -1

IdleHeater ==
    [pc |-> "idle", attempt |-> 0, try_count |-> 0, tries |-> DefaultHeaterTries,
     thread |-> None, calls |-> 0, sent |-> 0, sleeps |-> 0, failed |-> 0,
     last |-> None]

\* RunContextNode(event) as an object of its own, the event named by its
\* protocol_line.
RunContextNode(event) == [event |-> event, step_index |-> NoneInt, iteration |-> NoneInt]

\* RunContext([RunContextNode(protocol)], ...): the path holds a reference
\* to the first object of the heap.
RootContext == <<1>>

\* RunContextNode(event) plus the position of the run() call that owns it.
Frame(event) ==
    [event |-> event, step_index |-> NoneInt, iteration |-> NoneInt,
     pc |-> "enter", it |-> 0, ix |-> 0, remaining |-> 0, try_count |-> 0]

Top == stack[Len(stack)]

\* The thread argument RunContext gets.  ProtocolThread.run passes the thread
\* as the fourth positional argument, which is the "state" field, and
\* __main__ passes no thread: in both the context's thread is None.
ContextThread == IF harness = "engine" THEN "thread" ELSE None

\* Whether context.state is a RunState (see ContextThread: the worker passes
\* the QThread there).
ContextStateIsRunState == harness # "worker"

\* str(context) carried by progress notifications: the path's nodes.
PathOf(s) ==
    [i \in 1..Len(s) |-> [line |-> s[i].event.protocol_line,
                           step_index |-> s[i].step_index,
                           iteration |-> s[i].iteration]]

----------------------------------------------------------------------------
(* Exceptions: Group.run and ReactionCycle.run hold no try/except, so an   *)
(* exception raised in a descendant leaves every active run() call.        *)

\* A run() call returns to the "for step_index, event" loop of its parent.
Return(s) ==
    IF Len(s) = 1 THEN <<>>
    ELSE [SubSeq(s, 1, Len(s) - 1) EXCEPT ![Len(s) - 1].pc = "loop",
                                           ![Len(s) - 1].ix = @ + 1]

\* A faulty variant (C1): the parent catches the exception of a child
\* and goes on with its loop.
Unwind_to_parent(s) == Return(s)

Unwind(s) == <<>>

Raise(e) ==
    /\ exc' = e
    /\ stack' = Unwind(stack)

----------------------------------------------------------------------------
(* Hal.run_command: the socket is connected and the request sent, then the *)
(* response is read, in a poll loop when a thread is given.                *)

\* The values the "success" field of a response takes: JSON booleans and,
\* from Boost.PropertyTree, strings.
Bool(value) == [type |-> "bool", value |-> value]
Str(value) == [type |-> "str", value |-> value]
SuccessValues ==
    {Bool("True"), Bool("False"), Str("true"), Str("false"), Str("True"), Str("")}

\* The complete responses a HAL sends.
Responses ==
    [success : SuccessValues, error_message : {"e1", "e2"}, response : {"r1", "r2"}]

\* A faulty variant (C13): the truth value Python gives the raw value.
boost_bool_truthy(value_raw) ==
    IF value_raw.type = "bool" THEN value_raw.value = "True" ELSE value_raw.value # ""

\* boost_bool: value_raw if type(value_raw) == bool else value_raw == "true".
boost_bool(value_raw) ==
    IF value_raw.type = "bool" THEN value_raw.value = "True" ELSE value_raw.value = "true"

\* A faulty variant (C14): the "response" object is returned unconditionally.
run_command_result_unchecked(response) ==
    [kind |-> "returned", value |-> response.response]

\* The end of Hal.run_command once a complete response is decoded: HalError
\* with the response's error_message, or the "response" object.
run_command_result(response) ==
    IF ~boost_bool(response.success)
    THEN [kind |-> "raised", error |-> "HalError", value |-> response.error_message]
    ELSE [kind |-> "returned", value |-> response.response]

\* How the engine and the heater see a decoded response.
OutcomeOf(response) ==
    IF run_command_result(response).kind = "returned" THEN "ok" ELSE "rejected"

CompleteOutcomes == {OutcomeOf(response) : response \in Responses}

\* A faulty variant (C30): the budget counts the read that is about to be
\* made.
BudgetSpent_early(try_count, tries) == tries # Infinity /\ try_count + 1 >= tries

\* try_count >= tries, the negation of the loop condition's second half and
\* the test of the else branch; never so with tries=float("inf").
BudgetSpent(try_count, tries) == tries # Infinity /\ try_count >= tries

\* A faulty variant (C29): the poll loop goes on reading whatever the token
\* says.
RecvOutcomes_uninterruptible(thread, try_count, tries) ==
    CompleteOutcomes \cup (IF try_count >= MaxPolls THEN {} ELSE {"timeout"})

\* What one pass of the read ends with: a response ("ok": success true,
\* "rejected": success false), a socket timeout of the poll loop
\* ("timeout"), the loop's else branch ("TimeoutError", or "empty": the
\* "return {}" taken when interruption is requested).
RecvOutcomes(thread, try_count, tries) ==
    IF thread = None THEN CompleteOutcomes
    ELSE IF ~interruptionRequested /\ ~BudgetSpent(try_count, tries)
         THEN CompleteOutcomes \cup
              (IF tries = Infinity /\ try_count >= MaxPolls THEN {} ELSE {"timeout"})
         ELSE IF BudgetSpent(try_count, tries) THEN {"TimeoutError"}
              ELSE {"empty"}

\* How a finished run_command call leaves: by returning or by raising.
CallReturns(outcome) == outcome \in {"ok", "empty"}
ErrorOf(outcome) == IF outcome = "rejected" THEN "HalError" ELSE "TimeoutError"

\* A run_command call of a step: the command, the step's protocol_line, the
\* filenames its arguments carry (in the order they were formatted) with
\* the sequence number of the first, the cycle_number at the call, whether
\* the request went to the socket, and what the call ended with.
Called(command, line, filenames, cycle_number, sent, outcome) ==
    [command |-> command, line |-> line,
     sequence_number |-> IF filenames = <<>> THEN NoneInt
                         ELSE filenames[1].sequence_number,
     filenames |-> filenames,
     cycle_number |-> cycle_number, sent |-> sent, outcome |-> outcome]

SetOutcome(log, outcome) == [log EXCEPT ![Len(log)].outcome = outcome]

----------------------------------------------------------------------------
(* The execution engine: Event.run and its overrides.                      *)

Running == phase = "running" /\ stack # <<>>

BodyPc(kind) ==
    CASE kind \in ContainerTypes -> "loop"
      [] kind = "ImageSequence" -> "tag"
      [] kind = "SetTemperature" -> "send"
      [] OTHER -> "sleep"

\* A faulty variant (C5): only leaf steps test the interruption.
InterruptedAtDispatch_leaves ==
    ContextThread # None /\ interruptionRequested /\ Top.event.kind \notin ContainerTypes

\* Event.run: the interruption check, then the progress callback.
InterruptedAtDispatch == ContextThread # None /\ interruptionRequested

Notify(log, s, what) ==
    IF callback THEN Append(log, [path |-> PathOf(s), what |-> what]) ELSE log

\* One entry of the trace: what happened and the protocol_line of its step.
Item(what, event) == [what |-> what, line |-> event.protocol_line]
Noted(t, what, event) == IF callback THEN Append(t, Item(what, event)) ELSE t

EventRun ==
    /\ Running
    /\ Top.pc = "enter"
    /\ IF InterruptedAtDispatch
       THEN /\ Raise("InterruptedError")
            /\ UNCHANGED <<progressLog, trace>>
       ELSE /\ progressLog' = Notify(progressLog, stack, "step")
            /\ trace' = Noted(trace, "progress", Top.event)
            /\ stack' = [stack EXCEPT ![Len(stack)].pc = BodyPc(Top.event.kind),
                                      ![Len(stack)].remaining = Top.event.duration_ms]
            /\ UNCHANGED exc
    /\ UNCHANGED <<harness, imaging_args, preview, heap, contexts, hal, protocol, phase, interruptionRequested, run_state,
                   result, callback, commandLog, sleepLog, heater, ui, calls>>

\* A faulty variant (C8): the children are run last to first.
NextChild_reversed(frame) == frame.event.events[Len(frame.event.events) - frame.ix]

\* The child the "for iteration / for step_index, event" loops run next.
NextChild(frame) == frame.event.events[frame.ix + 1]

\* A faulty variant (C33): the parent's node is not told which child runs.
ChildStepIndex_unwritten(frame) == frame.step_index

\* create_child_context(event, step_index, iteration): last_node.step_index
\* = step_index, the index "enumerate(self.events)" gives the child.
ChildStepIndex(frame) == frame.ix

\* A faulty variant (C32): the cleaving step leaves the node as the last
\* child left it.
CleaveStepIndex_kept(step_index) == step_index

\* context.path[-1].step_index = None before the cleave notification.
CleaveStepIndex(step_index) == NoneInt

\* Group.run and ReactionCycle.run between two children: the next child is
\* run with a child context, a finished Group iteration starts the next one,
\* a finished ReactionCycle iteration goes on to its cleaving step.
ContainerStep ==
    /\ Running
    /\ Top.pc = "loop"
    /\ Top.it < Top.event.iterations
    /\ IF Top.ix < Len(Top.event.events)
       THEN /\ stack' = [stack EXCEPT ![Len(stack)].step_index = ChildStepIndex(Top),
                                      ![Len(stack)].iteration = Top.it,
                                      ![Len(stack)].pc = "child"]
                        \o <<Frame(NextChild(Top))>>
            /\ trace' = Append(trace, Item("run", NextChild(Top)))
            /\ UNCHANGED progressLog
       ELSE IF Top.event.kind = "Group"
       THEN /\ stack' = [stack EXCEPT ![Len(stack)].it = @ + 1,
                                      ![Len(stack)].ix = 0]
            /\ UNCHANGED <<progressLog, trace>>
       ELSE LET cleaving == [stack EXCEPT ![Len(stack)].step_index = CleaveStepIndex(@),
                                          ![Len(stack)].pc = "cleave"]
            IN  /\ stack' = cleaving
                /\ progressLog' = Notify(progressLog, cleaving, "cleave")
                /\ trace' = Noted(trace, "cleave_progress", Top.event)
    /\ UNCHANGED <<harness, imaging_args, preview, heap, contexts, hal, protocol, phase, interruptionRequested, run_state,
                   exc, result, callback, commandLog, sleepLog, heater, ui, calls>>

\* The loops of a container are over: run() returns.
ContainerReturn ==
    /\ Running
    /\ Top.pc = "loop"
    /\ Top.it >= Top.event.iterations
    /\ stack' = Return(stack)
    /\ UNCHANGED <<harness, imaging_args, preview, heap, contexts, hal, protocol, phase, interruptionRequested, run_state,
                   exc, result, callback, progressLog, trace, commandLog, sleepLog, heater, ui, calls>>

\* A faulty variant (C34): the number is handed out and the counter stays.
get_next_sequence_number_stale(state, reserve) ==
    [returned |-> state.sequence_number, state |-> state]

\* A faulty variant (C10): the counter advances by one whatever the
\* reservation.
get_next_sequence_number_single(state, reserve) ==
    [returned |-> state.sequence_number,
     state |-> [state EXCEPT !.sequence_number = @ + 1]]

\* RunState.get_next_sequence_number.
get_next_sequence_number(state, reserve) ==
    [returned |-> state.sequence_number,
     state |-> [state EXCEPT !.sequence_number = @ + reserve]]

\* A faulty variant (C36): the images of a sequence share one number.
FilenamesOf_one_number(state, count) ==
    [j \in 1..count |-> Filename(state.sequence_number, state.cycle_number)]

\* The filenames the loop formats, one after the other: each takes the
\* number get_next_sequence_number() returns and the cycle_number of the
\* state.
RECURSIVE FilenamesOf(_, _)
FilenamesOf(state, count) ==
    IF count = 0 THEN <<>>
    ELSE <<Filename(get_next_sequence_number(state, 1).returned, state.cycle_number)>>
         \o FilenamesOf(get_next_sequence_number(state, 1).state, count - 1)

\* A faulty variant (C11): one reservation for all the images of a sequence.
TagImages_once(state, images) == get_next_sequence_number(state, 1).state

\* The filename loop of ImageSequence.run: one reservation per image.
RECURSIVE TagImages(_, _)
TagImages(state, images) ==
    IF images = 0 THEN state
    ELSE TagImages(get_next_sequence_number(state, 1).state, images - 1)

\* A faulty variant (C7): the cycle is not counted.
CycleNumberAfterCleave_kept(cycle_number) == cycle_number

\* What follows a run_command call that returned: a leaf's run() returns,
\* ReactionCycle.run counts the cycle and goes to its next iteration.
CycleNumberAfterCleave(cycle_number) == cycle_number + 1

AfterCommand(command, state) ==
    IF command = "cleave"
    THEN /\ stack' = [stack EXCEPT ![Len(stack)].pc = "loop",
                                   ![Len(stack)].it = @ + 1,
                                   ![Len(stack)].ix = 0,
                                   ![Len(stack)].try_count = 0]
         /\ run_state' = [state EXCEPT !.cycle_number = CycleNumberAfterCleave(@)]
    ELSE /\ stack' = Return(stack)
         /\ run_state' = state

\* A faulty variant (C35): the request is sent a second time.
SendRequest_twice(log, called) == Append(Append(log, called), called)

\* s.sendall(request_raw), once per run_command call (MockHal: the one
\* print of the command).
SendRequest(log, called) == Append(log, called)

\* context.hal.run_command(command, context.thread) up to the sent request.
\* A missing hal (None) has no run_command; MockHal prints, sleeps and returns.
CallHal(command, state, filenames) ==
    CASE hal = None ->
            /\ Raise("AttributeError")
            /\ UNCHANGED <<run_state, commandLog, trace>>
      [] hal = "MockHal" ->
            /\ commandLog' = SendRequest(commandLog,
                                 Called(command, Top.event.protocol_line, filenames,
                                        state.cycle_number, FALSE, "ok"))
            /\ trace' = Append(trace, Item(command, Top.event))
            /\ AfterCommand(command, state)
            /\ UNCHANGED exc
      [] OTHER ->
            /\ commandLog' = SendRequest(commandLog,
                                 Called(command, Top.event.protocol_line, filenames,
                                        state.cycle_number, TRUE, "pending"))
            /\ trace' = Append(trace, Item(command, Top.event))
            /\ stack' = [stack EXCEPT ![Len(stack)].pc =
                                          IF command = "cleave" THEN "cleave_recv" ELSE "recv",
                                      ![Len(stack)].try_count = 0]
            /\ run_state' = state
            /\ UNCHANGED exc

\* imaging_args = self.imaging_args.copy() and the loop over
\* imaging_args["images"]: the copy is of the outer dict, the list and its
\* image dicts are the step's own, and each of them gets its "filename".
TaggedImages(images, state, count) == FilenamesOf(state, count)

\* ImageSequence.run: every image gets a filename with a fresh sequence
\* number, then run_image_sequence is sent.  With a state that is no
\* RunState the first filename raises before anything is written.
RunImageSequence ==
    /\ Running
    /\ Top.pc = "tag"
    /\ IF Top.event.images > 0 /\ ~ContextStateIsRunState
       THEN /\ Raise("AttributeError")
            /\ UNCHANGED <<run_state, commandLog, trace, imaging_args>>
       ELSE /\ CallHal("run_image_sequence", TagImages(run_state, Top.event.images),
                       TaggedImages(imaging_args[Top.event.protocol_line + 1],
                                    run_state, Top.event.images))
            /\ imaging_args' =
                  [imaging_args EXCEPT ![Top.event.protocol_line + 1] =
                      TaggedImages(@, run_state, Top.event.images)]
    /\ UNCHANGED <<harness, preview, heap, contexts, hal, protocol, phase, interruptionRequested,
                   result, callback, progressLog, sleepLog, heater, ui, calls>>

\* SetTemperature.run: wait_for_temperature is sent.
RunSetTemperature ==
    /\ Running
    /\ Top.pc = "send"
    /\ CallHal("wait_for_temperature", run_state, <<>>)
    /\ UNCHANGED <<harness, imaging_args, preview, heap, contexts, hal, protocol, phase, interruptionRequested,
                   result, callback, progressLog, sleepLog, heater, ui, calls>>

\* The cleaving step of ReactionCycle.run: the filename takes the next
\* sequence number and the current cycle_number, then cleave is sent.
RunCleave ==
    /\ Running
    /\ Top.pc = "cleave"
    /\ IF hal # None /\ ~ContextStateIsRunState
       THEN /\ Raise("AttributeError")
            /\ UNCHANGED <<run_state, commandLog, trace>>
       ELSE CallHal("cleave", get_next_sequence_number(run_state, 1).state,
                    FilenamesOf(run_state, 1))
    /\ UNCHANGED <<harness, imaging_args, preview, heap, contexts, hal, protocol, phase, interruptionRequested,
                   result, callback, progressLog, sleepLog, heater, ui, calls>>

\* One pass of the read of a step's command (tries is infinite).
HalRecv ==
    /\ Running
    /\ Top.pc \in {"recv", "cleave_recv"}
    /\ \E outcome \in RecvOutcomes(ContextThread, Top.try_count, Infinity) :
         IF outcome = "timeout"
         THEN /\ stack' = [stack EXCEPT ![Len(stack)].try_count = @ + 1]
              /\ UNCHANGED <<run_state, exc, commandLog>>
         ELSE /\ commandLog' = SetOutcome(commandLog, outcome)
              /\ IF CallReturns(outcome)
                 THEN /\ AfterCommand(commandLog[Len(commandLog)].command, run_state)
                      /\ UNCHANGED exc
                 ELSE /\ Raise(ErrorOf(outcome))
                      /\ UNCHANGED run_state
    /\ UNCHANGED <<harness, imaging_args, preview, heap, contexts, hal, protocol, phase, interruptionRequested,
                   result, callback, progressLog, trace, sleepLog, heater, ui, calls>>

\* A faulty variant (C6): the whole remaining duration is slept at once.
SliceOf_whole(remaining_duration) == remaining_duration

\* Wait.run with a thread: one msleep of at most a slice, then the check.
SliceOf(remaining_duration) == Min(remaining_duration, SliceMs)

WaitSlice ==
    /\ Running
    /\ Top.pc = "sleep"
    /\ ContextThread # None
    /\ IF Top.remaining > 0
       THEN LET duration == SliceOf(Top.remaining)
            IN  /\ sleepLog' = Append(sleepLog, [line |-> Top.event.protocol_line,
                                                 ms |-> duration])
                /\ IF interruptionRequested
                   THEN Raise("InterruptedError")
                   ELSE /\ stack' = [stack EXCEPT ![Len(stack)].remaining = @ - duration]
                        /\ UNCHANGED exc
       ELSE /\ stack' = Return(stack)
            /\ UNCHANGED <<exc, sleepLog>>
    /\ UNCHANGED <<harness, imaging_args, preview, heap, contexts, hal, protocol, phase, interruptionRequested, run_state,
                   result, callback, progressLog, trace, commandLog, heater, ui, calls>>

\* Wait.run without a thread: one time.sleep of the whole duration.
WaitSleep ==
    /\ Running
    /\ Top.pc = "sleep"
    /\ ContextThread = None
    /\ sleepLog' = Append(sleepLog, [line |-> Top.event.protocol_line,
                                     ms |-> Top.event.duration_ms])
    /\ stack' = Return(stack)
    /\ UNCHANGED <<harness, imaging_args, preview, heap, contexts, hal, protocol, phase, interruptionRequested, run_state,
                   exc, result, callback, progressLog, trace, commandLog, heater, ui, calls>>

----------------------------------------------------------------------------
(* Hal.disable_heater and MockHal.disable_heater.                          *)

\* The exception of the for-else of Hal.disable_heater: raise HalError(...).
HeaterShutdownError == "HalError"

HeaterBusy == heater.pc \in {"send", "recv", "blocked", "sleep"}
HeaterOver == heater.pc \in {"returned", "raised"}

\* A faulty variant (C2): the call returns without a command sent.
disable_heater_unsent(thread, tries) ==
    [pc |-> "returned", attempt |-> 0, try_count |-> 0, tries |-> tries,
     thread |-> thread, calls |-> heater.calls + 1, sent |-> 0, sleeps |-> 0,
     failed |-> 0, last |-> None]

\* The call itself: MockHal only prints; Hal enters "for _ in range(tries)".
disable_heater(thread, tries) ==
    [pc |-> IF hal = "MockHal" THEN "returned" ELSE "send",
     attempt |-> 0, try_count |-> 0, tries |-> tries, thread |-> thread,
     calls |-> heater.calls + 1, sent |-> 0, sleeps |-> 0, failed |-> 0,
     last |-> None]

\* Where run_command is once the request is sent: at a read that ends
\* ("recv": with data, or with the timeout set when a thread is given) or,
\* without a thread, at the read with no timeout of a HAL that sends
\* nothing ("blocked").
ReadsAfterSend(thread) == IF thread = None THEN {"recv", "blocked"} ELSE {"recv"}

\* run_command({"command": "disable_heater"}, thread, tries=1): the request is sent.
HeaterSend ==
    /\ heater.pc = "send"
    /\ \E pc \in ReadsAfterSend(heater.thread) :
         heater' = [heater EXCEPT !.pc = pc, !.attempt = @ + 1,
                                  !.sent = @ + 1, !.try_count = 0]
    /\ UNCHANGED <<harness, imaging_args, preview, heap, contexts, hal, protocol, phase, interruptionRequested, stack,
                   run_state, exc, result, callback, progressLog, trace, commandLog,
                   sleepLog, ui, calls>>

\* One pass of the read of that command: a returned call breaks the loop,
\* a raised one is printed and followed by the sleep.
HeaterRecv ==
    /\ heater.pc = "recv"
    /\ \E outcome \in RecvOutcomes(heater.thread, heater.try_count, 1) :
         heater' = IF outcome = "timeout"
                   THEN [heater EXCEPT !.try_count = @ + 1]
                   ELSE [heater EXCEPT !.last = outcome,
                                       !.failed = IF CallReturns(outcome) THEN @ ELSE @ + 1,
                                       !.pc = IF CallReturns(outcome)
                                              THEN "returned" ELSE "sleep"]
    /\ UNCHANGED <<harness, imaging_args, preview, heap, contexts, hal, protocol, phase, interruptionRequested, stack,
                   run_state, exc, result, callback, progressLog, trace, commandLog,
                   sleepLog, ui, calls>>

\* A faulty variant (C4): the retry loop runs one pass too many.
HeaterRetries_one_more(attempt, tries) == attempt <= tries

\* Whether "for _ in range(tries)" has another pass after `attempt` passes.
HeaterRetries(attempt, tries) == attempt < tries

\* time.sleep(1) after a failed attempt, then the next attempt or, when the
\* loop has run out, the HalError of its else branch.
HeaterSleep ==
    /\ heater.pc = "sleep"
    /\ heater' = [heater EXCEPT !.sleeps = @ + 1,
                                !.pc = IF HeaterRetries(heater.attempt, heater.tries)
                                       THEN "send" ELSE "raised"]
    /\ UNCHANGED <<harness, imaging_args, preview, heap, contexts, hal, protocol, phase, interruptionRequested, stack,
                   run_state, exc, result, callback, progressLog, trace, commandLog,
                   sleepLog, ui, calls>>

----------------------------------------------------------------------------
(* The callers of protocol.run.                                            *)

\* A faulty variant (C15): every exception is reported as a failure.
StatusOf_no_stop(e) == IF e = None THEN "COMPLETED" ELSE "FAILED"

\* SequencingProtocolStatus the worker reports for what protocol.run ended with.
StatusOf(e) ==
    IF e = None THEN "COMPLETED"
    ELSE IF e = "InterruptedError" THEN "STOPPED" ELSE "FAILED"

\* SequencingUi.error: every error but InterruptedError is shown.
Shown(errors, e) == IF e # "InterruptedError" THEN Append(errors, e) ELSE errors

FreshRun(t) ==
    /\ trace' = t
    /\ exc' = None
    /\ result' = None
    /\ run_state' = RunState
    /\ progressLog' = <<>>
    /\ commandLog' = <<>>
    /\ sleepLog' = <<>>
    /\ heater' = IdleHeater

\* SequencingUi.open: a protocol file is chosen, validated and loaded.
Open(d) ==
    /\ harness = "worker"
    /\ ui.open /\ ~ui.slot
    /\ protocol' = load_protocol_json(d, 0, 0)[1]
    /\ imaging_args' = ImagingArgsOf(load_protocol_json(d, 0, 0)[1])
    /\ ui' = [ui EXCEPT !.start = TRUE, !.status = "READY", !.errors = <<>>]
    /\ FreshRun(<<>>)
    /\ UNCHANGED <<harness, preview, heap, contexts, hal, phase, interruptionRequested, stack, callback, calls>>

\* SequencingUi.start: QThread.start() begins ProtocolThread.run, up to the
\* call of protocol.run, unless the thread is still running.
Start ==
    /\ harness = "worker"
    /\ ui.start /\ ~ui.slot
    /\ ui' = [ui EXCEPT !.stop = TRUE, !.start = FALSE, !.open = FALSE,
                        !.status = "RUNNING", !.errors = <<>>]
    /\ IF phase = "idle"
       THEN /\ phase' = "running"
            /\ interruptionRequested' = FALSE
            /\ stack' = <<Frame(protocol)>>
            /\ callback' = TRUE
            /\ FreshRun(<<Item("run", protocol)>>)
       ELSE UNCHANGED <<phase, interruptionRequested, stack, callback, exc, result,
                        run_state, progressLog, commandLog, sleepLog, trace, heater>>
    /\ UNCHANGED <<harness, imaging_args, preview, heap, contexts, hal, protocol, calls>>

\* SequencingUi.stop: requestInterruption() takes effect on a running thread.
Stop ==
    /\ harness = "worker"
    /\ ui.stop /\ ~ui.slot
    /\ ui' = [ui EXCEPT !.stop = FALSE]
    /\ interruptionRequested' = (interruptionRequested \/ phase \in {"running", "emitted"})
    /\ UNCHANGED <<harness, imaging_args, preview, heap, contexts, hal, protocol, phase, stack, run_state, exc, result,
                   callback, progressLog, trace, commandLog, sleepLog, heater, calls>>

\* A faulty variant (C24): the callback is cleared after a run that
\* returned and kept after one that raised.
CallbackAfterRun_kept_on_error(e) == e # None

\* protocol.event_run_callback = None in the finally clause: whether the
\* callback is still registered after a run that ended with e.
CallbackAfterRun(e) == FALSE

\* ProtocolThread.run after protocol.run: the except and finally clauses.
WorkerFinally ==
    /\ harness = "worker"
    /\ phase = "running" /\ stack = <<>>
    /\ result' = StatusOf(exc)
    /\ callback' = CallbackAfterRun(exc)
    /\ ui' = [ui EXCEPT !.signal = StatusOf(exc),
                        !.errors = IF exc = None THEN @ ELSE Shown(@, exc)]
    /\ phase' = "emitted"
    /\ UNCHANGED <<harness, imaging_args, preview, heap, contexts, hal, protocol, interruptionRequested, stack, run_state,
                   exc, progressLog, trace, commandLog, sleepLog, heater, calls>>

\* The worker thread ends: its interruption request ends with it.
ThreadExit ==
    /\ harness = "worker"
    /\ phase = "emitted"
    /\ phase' = "idle"
    /\ interruptionRequested' = FALSE
    /\ UNCHANGED <<harness, imaging_args, preview, heap, contexts, hal, protocol, stack, run_state, exc, result, callback,
                   progressLog, trace, commandLog, sleepLog, heater, ui, calls>>

\* SequencingUi.finished, up to the call of disable_heater.
Finished ==
    /\ harness = "worker"
    /\ ui.signal # None /\ ~ui.slot
    /\ ui' = [ui EXCEPT !.slot = TRUE]
    /\ heater' = IF hal # None THEN disable_heater("thread", DefaultHeaterTries)
                 ELSE heater
    /\ UNCHANGED <<harness, imaging_args, preview, heap, contexts, hal, protocol, phase, interruptionRequested, stack,
                   run_state, exc, result, callback, progressLog, trace, commandLog, sleepLog, calls>>

\* A faulty variant (C16): a failed disable_heater turns the status to Failed.
ReportedStatus_masked(emitted, heater_raised) ==
    IF heater_raised THEN "FAILED" ELSE emitted

\* updateStatusWidget("status", result.value): the status shown is the one
\* the finished signal carried, whatever disable_heater did.
ReportedStatus(emitted, heater_raised) == emitted

\* SequencingUi.finished after disable_heater: a failure of it is shown, the
\* status is set to the run's result and the buttons are reset.
FinishedEnd ==
    /\ harness = "worker"
    /\ ui.slot
    /\ hal # None => HeaterOver
    /\ ui' = [ui EXCEPT !.slot = FALSE, !.signal = None, !.status = ReportedStatus(ui.signal, heater.pc = "raised"),
                        !.stop = FALSE, !.start = TRUE, !.open = TRUE,
                        !.errors = IF heater.pc = "raised"
                                      THEN Shown(@, HeaterShutdownError) ELSE @]
    /\ UNCHANGED <<harness, imaging_args, preview, heap, contexts, hal, protocol, phase, interruptionRequested, stack,
                   run_state, exc, result, callback, progressLog, trace, commandLog,
                   sleepLog, heater, calls>>

\* sequencing_protocol.py run as a script: the protocol is loaded and run
\* with RunContext(path, output_directory, hal, RunState()).
MainRun(d) ==
    /\ harness = "main"
    /\ phase = "init"
    /\ protocol' = load_protocol_json(d, 0, 0)[1]
    /\ imaging_args' = ImagingArgsOf(load_protocol_json(d, 0, 0)[1])
    /\ stack' = <<Frame(load_protocol_json(d, 0, 0)[1])>>
    /\ phase' = "running"
    /\ FreshRun(<<Item("run", load_protocol_json(d, 0, 0)[1])>>)
    /\ UNCHANGED <<harness, preview, heap, contexts, hal, interruptionRequested, callback, ui, calls>>

\* Its except and finally clauses: the exception is printed (result holds
\* what was printed), then hal.disable_heater(None).
MainFinally ==
    /\ harness = "main"
    /\ phase = "running" /\ stack = <<>>
    /\ phase' = "finally"
    /\ result' = exc
    /\ heater' = disable_heater(None, DefaultHeaterTries)
    /\ UNCHANGED <<harness, imaging_args, preview, heap, contexts, hal, protocol, interruptionRequested, stack, run_state,
                   exc, callback, progressLog, trace, commandLog, sleepLog, ui, calls>>

MainExit ==
    /\ harness = "main"
    /\ phase = "finally"
    /\ HeaterOver
    /\ phase' = "exit"
    /\ UNCHANGED <<harness, imaging_args, preview, heap, contexts, hal, protocol, interruptionRequested, stack, run_state,
                   exc, result, callback, progressLog, trace, commandLog, sleepLog, heater, ui, calls>>

\* The engine called with a context built as the RunContext dataclass
\* declares it: state a RunState, thread the caller's cancel token, and a
\* callback registered on the root.
EngineRun(d) ==
    /\ harness = "engine"
    /\ phase = "init"
    /\ protocol' = load_protocol_json(d, 0, 0)[1]
    /\ imaging_args' = ImagingArgsOf(load_protocol_json(d, 0, 0)[1])
    /\ stack' = <<Frame(load_protocol_json(d, 0, 0)[1])>>
    /\ phase' = "running"
    /\ callback' = TRUE
    /\ FreshRun(<<Item("run", load_protocol_json(d, 0, 0)[1])>>)
    /\ UNCHANGED <<harness, preview, heap, contexts, hal, interruptionRequested, ui, calls>>

\* requestInterruption() on that token.
Cancel ==
    /\ harness \in {"engine", "heater", "preview", "poll"}
    /\ phase \in {"init", "running", "finally"}
    /\ ~interruptionRequested
    /\ interruptionRequested' = TRUE
    /\ UNCHANGED <<harness, imaging_args, preview, heap, contexts, hal, protocol, phase, stack, run_state, exc, result,
                   callback, progressLog, trace, commandLog, sleepLog, heater, ui, calls>>

\* protocol.run returned to, or raised into, that caller, which tells the
\* outcomes apart as the except clause of ProtocolThread.run does.
EngineReturn ==
    /\ harness = "engine"
    /\ phase = "running" /\ stack = <<>>
    /\ phase' = "returned"
    /\ result' = StatusOf(exc)
    /\ UNCHANGED <<harness, imaging_args, preview, heap, contexts, hal, protocol, interruptionRequested, stack, run_state,
                   exc, callback, progressLog, trace, commandLog, sleepLog, heater, ui, calls>>

----------------------------------------------------------------------------
(* The specification of the runs.                                          *)

\* The two PreviewThread classes: preview.py and preview_widget.py.
DecodersOf(h) == IF h = "preview" THEN {"preview", "preview_widget"} ELSE {"preview_widget"}

\* A PreviewThread that has not yet connected.
PreviewThread(decoder) ==
    [decoder |-> decoder, pc |-> "connect", wire |-> <<>>, closed |-> FALSE,
     sent |-> <<>>, image_size |-> 0, image_bytes |-> <<>>, frames |-> <<>>,
     connections |-> 0, reads |-> 0, error |-> None]

InitialUi ==
    [start |-> FALSE, stop |-> FALSE, open |-> TRUE, status |-> "NEED_PROTOCOL",
     signal |-> None, slot |-> FALSE, errors |-> <<>>]

\* ProtocolThread creates a Hal iff the HAL port answers; the script takes
\* Hal or MockHal from its arguments.
HalsOf(h) ==
    CASE h = "worker" -> {"Hal", None}
      [] h \in {"main", "engine"} -> {"Hal", "MockHal"}
      [] OTHER -> {"Hal"}

\* The state after construction, for the caller h.
InitOf(h) ==
    /\ harness = h
    /\ hal \in HalsOf(h)
    /\ protocol = NoProtocol
    /\ phase = IF h = "worker" THEN "idle" ELSE "init"
    /\ interruptionRequested = FALSE
    /\ stack = <<>>
    /\ run_state = RunState
    /\ exc = None
    /\ result = None
    /\ callback = FALSE
    /\ progressLog = <<>>
    /\ commandLog = <<>>
    /\ sleepLog = <<>>
    /\ trace = <<>>
    /\ heater = IdleHeater
    /\ ui = InitialUi
    /\ calls = <<>>
    /\ imaging_args = ImagingArgsOf(NoProtocol)
    /\ heap = IF h = "context" THEN <<RunContextNode(0)>> ELSE <<>>
    /\ contexts = IF h = "context" THEN <<RootContext>> ELSE <<>>
    /\ preview \in {PreviewThread(decoder) : decoder \in DecodersOf(h)}

Init == \E h \in {"worker", "main", "engine"} : InitOf(h)

EngineNext ==
    \/ EventRun
    \/ ContainerStep
    \/ ContainerReturn
    \/ RunImageSequence
    \/ RunSetTemperature
    \/ RunCleave
    \/ HalRecv
    \/ WaitSlice
    \/ WaitSleep

HeaterNext ==
    \/ HeaterSend
    \/ HeaterRecv
    \/ HeaterSleep

Next ==
    \/ \E d \in Descriptions : Open(d)
    \/ Start
    \/ Stop
    \/ WorkerFinally
    \/ ThreadExit
    \/ Finished
    \/ FinishedEnd
    \/ \E d \in Descriptions : MainRun(d)
    \/ MainFinally
    \/ MainExit
    \/ \E d \in Descriptions : EngineRun(d)
    \/ Cancel
    \/ EngineReturn
    \/ EngineNext
    \/ HeaterNext

Spec == Init /\ [][Next]_vars

----------------------------------------------------------------------------
(* What a run is expected to do, step by step: the run() calls, the        *)
(* progress notifications (when a callback is registered: observed) and    *)
(* the commands, in the order of the protocol.                             *)

RECURSIVE Repeat(_, _)
Repeat(s, n) == IF n = 0 THEN <<>> ELSE s \o Repeat(s, n - 1)

RECURSIVE Expected(_, _)
RECURSIVE ExpectedOfAll(_, _)
ExpectedOfAll(events, observed) ==
    IF events = <<>> THEN <<>>
    ELSE Expected(Head(events), observed) \o ExpectedOfAll(Tail(events), observed)
Expected(e, observed) ==
    <<Item("run", e)>>
    \o (IF observed THEN <<Item("progress", e)>> ELSE <<>>)
    \o CASE e.kind = "Group" ->
                Repeat(ExpectedOfAll(e.events, observed), e.iterations)
         [] e.kind = "ReactionCycle" ->
                Repeat(ExpectedOfAll(e.events, observed)
                       \o (IF observed THEN <<Item("cleave_progress", e)>> ELSE <<>>)
                       \o <<Item("cleave", e)>>, e.iterations)
         [] e.kind = "ImageSequence" -> <<Item("run_image_sequence", e)>>
         [] e.kind = "SetTemperature" -> <<Item("wait_for_temperature", e)>>
         [] OTHER -> <<>>

\* Whether the runs of this caller have a callback registered.
Observed == harness # "main"

\* protocol.run was called and has returned.
Completed == trace # <<>> /\ stack = <<>> /\ exc = None

IsRun(item) == item.what = "run"
RunsOf(t) == SelectSeq(t, IsRun)

IsCleave(called) == called.command = "cleave"
Cleaves == SelectSeq(commandLog, IsCleave)

OnlyLeaves(events) == \A i \in 1..Len(events) : events[i].kind \notin ContainerTypes

----------------------------------------------------------------------------
(* The claims about the runs, checked under Spec.                          *)

\* C1: when a step of a run raises (a HAL rejection, a timeout or the
\* cancellation error), the whole run aborts at once: every active run()
\* call is left, and from then on no step is dispatched, no progress
\* notification is emitted and no step command is sent, for any remaining
\* sibling or iteration of any enclosing Group or ReactionCycle.
C1_RaiseAbortsTheRun ==
    /\ [](exc # None => stack = <<>>)
    /\ [][(exc # None /\ exc' # None) =>
             /\ exc' = exc
             /\ trace' = trace
             /\ progressLog' = progressLog
             /\ commandLog' = commandLog
             /\ sleepLog' = sleepLog
             /\ run_state' = run_state]_vars

\* A rejected command of the first child of a container with two children
\* and two iterations: the run is over after that one command.
C1_Witness ==
    /\ exc = "HalError"
    /\ phase \in {"returned", "emitted", "finally"}
    /\ protocol.kind \in ContainerTypes
    /\ protocol.iterations = 2
    /\ Len(protocol.events) = 2
    /\ Len(commandLog) = 1
    /\ commandLog[1].outcome = "rejected"
    /\ Len(RunsOf(trace)) = 2

C3_CancelledCommandRaises ==
    \A i \in 1..Len(commandLog) :
        commandLog[i].outcome = "empty" =>
            /\ exc = "InterruptedError"
            /\ StatusOf(exc) = "STOPPED"
            /\ commandLog[i].command = "cleave" =>
                  run_state.cycle_number = commandLog[i].cycle_number

\* C5: for every step kind, when the dispatch of a step begins with
\* cancellation already requested on the context's cancel token, the step
\* raises the cancellation error before it emits a progress notification,
\* sends a HAL command, sleeps, reserves a sequence number or dispatches a
\* child.
C5_CancelledAtDispatch ==
    [][(Running /\ Top.pc = "enter" /\ ContextThread # None /\ interruptionRequested) =>
          /\ exc' = "InterruptedError"
          /\ stack' = <<>>
          /\ progressLog' = progressLog
          /\ commandLog' = commandLog
          /\ sleepLog' = sleepLog
          /\ run_state' = run_state
          /\ trace' = trace]_vars

\* A Group cancelled between its own progress notification and the dispatch
\* of its first child: nothing of the child or of the Group's later
\* children has happened.
C5_Witness ==
    /\ harness = "engine"
    /\ exc = "InterruptedError"
    /\ protocol.kind = "Group"
    /\ Len(protocol.events) = 2
    /\ trace = <<Item("run", protocol), Item("progress", protocol),
                 Item("run", protocol.events[1])>>
    /\ Len(progressLog) = 1
    /\ commandLog = <<>>
    /\ sleepLog = <<>>
    /\ run_state = RunState

\* C7: for a ReactionCycle with n iterations and k leaf children, each
\* iteration makes exactly k child dispatches in declared order, followed
\* by one cleave progress notification and one cleave command; the cleave
\* command of the j-th iteration carries the cycle_number as it is before
\* that iteration's increment, and cycle_number is incremented only after
\* the cleave command returned.
C7_ReactionCycleIterations ==
    /\ (protocol.kind = "ReactionCycle" /\ OnlyLeaves(protocol.events)) =>
          /\ IsPrefix(trace, Expected(protocol, Observed))
          /\ Completed =>
                /\ trace = Expected(protocol, Observed)
                /\ Len(RunsOf(trace)) = 1 + protocol.iterations * Len(protocol.events)
                /\ Len(Cleaves) = protocol.iterations
                /\ Observed => Cardinality({i \in 1..Len(progressLog) :
                                               progressLog[i].what = "cleave"})
                                  = protocol.iterations
    /\ \A j \in 1..Len(Cleaves) :
          /\ Cleaves[j].cycle_number = j - 1
          /\ Cleaves[j].outcome \in {"pending", "rejected"} =>
                j = Len(Cleaves) /\ run_state.cycle_number = j - 1
    /\ run_state.cycle_number =
          Cardinality({j \in 1..Len(Cleaves) : CallReturns(Cleaves[j].outcome)})

\* A ReactionCycle of two iterations over two leaf children, run to its
\* end against a HAL: the cleaves carry cycle 0 and cycle 1.
C7_Witness ==
    /\ harness = "engine"
    /\ hal = "Hal"
    /\ Completed
    /\ protocol.kind = "ReactionCycle"
    /\ protocol.iterations = 2
    /\ Len(protocol.events) = 2
    /\ Len(Cleaves) = 2
    /\ Cleaves[1].cycle_number = 0 /\ Cleaves[1].outcome = "ok"
    /\ Cleaves[2].cycle_number = 1 /\ Cleaves[2].outcome = "ok"
    /\ run_state.cycle_number = 2

\* C8: for every Group and ReactionCycle with n iterations and children
\* c0..c(k-1), the children are dispatched in the order (iteration 0:
\* c0..c(k-1)), (iteration 1: c0..c(k-1)), ..., and a child is dispatched
\* only after the whole subtree of the previously dispatched child has
\* finished: at no point are two steps of a run in flight at once.
C8_ChildrenInDeclaredOrder ==
    /\ IsPrefix(RunsOf(trace), RunsOf(Expected(protocol, FALSE)))
    /\ Completed => RunsOf(trace) = RunsOf(Expected(protocol, FALSE))
    /\ stack # <<>> => stack[1].event = protocol
    /\ \A i \in 1..(Len(stack) - 1) :
          /\ stack[i].pc = "child"
          /\ stack[i].event.kind \in ContainerTypes
          /\ stack[i].iteration = stack[i].it
          /\ stack[i].step_index = stack[i].ix
          /\ stack[i + 1].event = stack[i].event.events[stack[i].step_index + 1]

\* A Group of two iterations over two children run to its end: five run()
\* calls, the children's in the order c0, c1, c0, c1.
C8_Witness ==
    /\ Completed
    /\ protocol.kind = "Group"
    /\ protocol.iterations = 2
    /\ Len(protocol.events) = 2
    /\ RunsOf(trace) = <<Item("run", protocol),
                         Item("run", protocol.events[1]), Item("run", protocol.events[2]),
                         Item("run", protocol.events[1]), Item("run", protocol.events[2])>>

\* The sequence numbers a run_command call of a step took: one per image of
\* the ImageSequence, one for a cleave.
ReservedBy(called) ==
    CASE called.command = "run_image_sequence" ->
            Nodes(protocol)[called.line + 1].images
      [] called.command = "cleave" -> 1
      [] OTHER -> 0

RECURSIVE ReservedByAll(_)
ReservedByAll(log) ==
    IF log = <<>> THEN 0 ELSE ReservedBy(Head(log)) + ReservedByAll(Tail(log))

IsCleaveItem(item) == item.what = "cleave"

\* C11: throughout a run sequence_number and cycle_number never decrease;
\* sequence_number rises by one for each image tagged by an ImageSequence
\* dispatch and for each cleave command, cycle_number rises by one for each
\* completed ReactionCycle iteration (nested cycles included) and at no
\* other point, so at the end of an uninterrupted run cycle_number equals
\* the number of cleave commands sent.
C11_CountersOnlyRise ==
    /\ [](/\ run_state.sequence_number = ReservedByAll(commandLog)
          /\ run_state.cycle_number <= Len(Cleaves)
          /\ (Completed /\ ContextStateIsRunState) =>
                /\ run_state.cycle_number = Len(Cleaves)
                /\ Len(Cleaves) =
                      Len(SelectSeq(Expected(protocol, FALSE), IsCleaveItem)))
    /\ [][stack # <<>> =>
             /\ run_state'.sequence_number >= run_state.sequence_number
             /\ run_state'.cycle_number \in
                   {run_state.cycle_number, run_state.cycle_number + 1}
             /\ (run_state'.cycle_number = run_state.cycle_number + 1) <=>
                   /\ Top.pc \in {"cleave", "cleave_recv"}
                   /\ stack' # <<>>
                   /\ Top'.pc = "loop"
                   /\ Top'.it = Top.it + 1]_vars

\* Two iterations of a ReactionCycle over an ImageSequence of MaxImages
\* images, run to the end: every image and every cleave took one number.
C11_Witness ==
    /\ harness = "engine"
    /\ Completed
    /\ protocol.kind = "ReactionCycle"
    /\ protocol.iterations = 2
    /\ Len(protocol.events) = 1
    /\ protocol.events[1].images = MaxImages
    /\ run_state.sequence_number = 2 * (MaxImages + 1)
    /\ run_state.cycle_number = 2

----------------------------------------------------------------------------
(* The context harness: create_child_context called on contexts built from *)
(* a root context, the RunContextNode objects kept apart from the paths    *)
(* that refer to them.                                                     *)

\* The nodes a context's path refers to, as they are in a heap.
PathNodes(h, path) == [i \in 1..Len(path) |-> h[path[i]]]

\* self.path.copy(): a new list of the same references.
CopyOfPath(path) == path

\* create_child_context(event, step_index, iteration) on contexts[c].
create_child_context(c, event, step_index, iteration) ==
    /\ harness = "context"
    /\ Len(contexts) < MaxContexts
    /\ LET child_node == Len(heap) + 1
           child_path == CopyOfPath(contexts[c])
           last_node == child_path[Len(child_path)]
           written == [heap EXCEPT
                          ![last_node].step_index =
                              IF step_index # NoneInt THEN step_index ELSE @,
                          ![last_node].iteration =
                              IF iteration # NoneInt THEN iteration ELSE @]
       IN  /\ heap' = Append(written, RunContextNode(event))
           /\ contexts' = Append(contexts, Append(child_path, child_node))
           /\ calls' = Append(calls,
                  [receiver |-> c,
                   step_index |-> step_index,
                   iteration |-> iteration,
                   path_before |-> contexts[c],
                   nodes_before |-> PathNodes(heap, contexts[c]),
                   returned |-> Len(contexts) + 1])
    /\ UNCHANGED <<harness, imaging_args, preview, hal, protocol, phase, interruptionRequested, stack,
                   run_state, exc, result, callback, progressLog, commandLog,
                   sleepLog, trace, heater, ui>>

ContextNext ==
    \E c \in 1..Len(contexts), event \in 1..MaxContexts,
       step_index \in {NoneInt} \cup 0..MaxStepIndex,
       iteration \in {NoneInt} \cup 0..MaxStepIndex :
        create_child_context(c, event, step_index, iteration)

SpecContext == InitOf("context") /\ [][ContextNext]_vars

\* C12: create_child_context never mutates the receiver: after the call the
\* receiver's path has the same nodes in the same order, every node on it
\* has the step_index and iteration it had before the call; only the
\* returned child context carries the new position.
C12_ReceiverNotMutated ==
    (harness = "context" /\ calls # <<>>) =>
        LET call == calls[Len(calls)]
        IN  /\ contexts[call.receiver] = call.path_before
            /\ PathNodes(heap, contexts[call.receiver]) = call.nodes_before

----------------------------------------------------------------------------
(* The client harness: the end of Hal.run_command applied to every         *)
(* complete response.                                                      *)

Respond(response) ==
    /\ harness = "client"
    /\ Len(calls) < MaxResponses
    /\ calls' = Append(calls, [response |-> response,
                               result |-> run_command_result(response)])
    /\ UNCHANGED <<harness, imaging_args, preview, heap, contexts, hal, protocol, phase, interruptionRequested,
                   stack, run_state, exc, result, callback, progressLog, commandLog,
                   sleepLog, trace, heater, ui>>

SpecClient == InitOf("client") /\ [][\E response \in Responses : Respond(response)]_vars

\* C13: the HAL client classifies a response as a success exactly when its
\* success field is the boolean true or the string "true", and as a failure
\* when it is the boolean false or the string "false"; the two encodings of
\* one truth value are never classified differently.
C13_SuccessNormalization ==
    harness = "client" =>
        \A i \in 1..Len(calls) :
            /\ calls[i].result.kind = "returned" <=>
                  calls[i].response.success \in {Bool("True"), Str("true")}
            /\ calls[i].response.success \in {Bool("False"), Str("false")} =>
                  calls[i].result.kind = "raised"

\* The string "true" classified as a success and the string "false" as a
\* failure.
C13_Witness ==
    /\ harness = "client"
    /\ Len(calls) = 2
    /\ calls[1].response.success = Str("true")
    /\ calls[1].result.kind = "returned"
    /\ calls[2].response.success = Str("false")
    /\ calls[2].result.kind = "raised"

\* C14: when a complete response is read, run_command returns the
\* response's "response" object if and only if the success indicator is
\* classified as success; otherwise it raises the HAL-rejection error
\* carrying the response's error_message, and it never returns a value for
\* a rejected command.
C14_ReturnsIffSuccess ==
    harness = "client" =>
        \A i \in 1..Len(calls) :
            LET response == calls[i].response
                ended == calls[i].result
            IN  IF boost_bool(response.success)
                THEN ended = [kind |-> "returned", value |-> response.response]
                ELSE ended = [kind |-> "raised", error |-> "HalError",
                              value |-> response.error_message]

\* A rejected command whose error text is carried by the HalError, after a
\* command that returned its response object.
C14_Witness ==
    /\ harness = "client"
    /\ Len(calls) = 2
    /\ calls[1].response.success = Bool("True")
    /\ calls[1].result = [kind |-> "returned", value |-> "r2"]
    /\ calls[2].response = [success |-> Bool("False"), error_message |-> "e2",
                            response |-> "r1"]
    /\ calls[2].result = [kind |-> "raised", error |-> "HalError", value |-> "e2"]

\* The final statuses of SequencingProtocolStatus.
FinalStatuses == {"COMPLETED", "STOPPED", "FAILED"}

\* C15: every run that is started reports exactly one final status:
\* Completed if and only if every step finished without raising, Stopped if
\* and only if the run was aborted by the cancellation error, Failed for
\* every other error; a cancelled run is never reported as Failed and a
\* failed run never as Completed or Stopped.
C15_OneFinalStatus ==
    /\ [](harness \in {"worker", "engine"} =>
            /\ result \in FinalStatuses \cup {None}
            /\ phase = "returned" => result \in FinalStatuses
            /\ result # None =>
                  /\ stack = <<>>
                  /\ result = "COMPLETED" <=> exc = None
                  /\ result = "STOPPED" <=> exc = "InterruptedError"
                  /\ result = "FAILED" <=> exc \notin {None, "InterruptedError"}
            /\ ui.signal # None => ui.signal = result
            /\ ui.status \in FinalStatuses => ui.status = result)
    /\ [][(harness \in {"worker", "engine"} /\ result # None /\ result' # None) =>
             result' = result /\ exc' = exc]_vars
    /\ [][(harness \in {"worker", "engine"} /\ phase = "running" /\ phase' # "running") =>
             /\ result = None
             /\ result' \in FinalStatuses
             /\ harness = "worker" => ui.signal = None /\ ui'.signal = result']_vars

\* A run cancelled during a Wait, reported as Stopped.
C15_Witness ==
    /\ harness = "engine"
    /\ phase = "returned"
    /\ exc = "InterruptedError"
    /\ result = "STOPPED"
    /\ sleepLog # <<>>

\* C16: a failure of the heater-disable step never masks or replaces the
\* outcome of the run: when disable_heater raises after a run, the status
\* reported for the run is still the run's own result and the heater
\* failure is reported in addition to it.
C16_HeaterFailureDoesNotMask ==
    /\ (harness = "worker" /\ heater.pc = "raised" /\ ui.status \in FinalStatuses) =>
          /\ ui.status = StatusOf(exc)
          /\ ui.errors = Shown(IF exc = None THEN <<>> ELSE Shown(<<>>, exc), "HalError")
    /\ (harness = "main" /\ heater.pc = "raised" /\ phase = "exit") =>
          result = exc

\* A completed run of the worker after which all the attempts to disable
\* the heater failed: the status is Completed and the HalError is shown.
C16_Witness ==
    /\ harness = "worker"
    /\ heater.pc = "raised"
    /\ heater.failed = DefaultHeaterTries
    /\ exc = None
    /\ ui.status = "COMPLETED"
    /\ ui.errors = <<"HalError">>

\* C17: the error raised by disable_heater when all its attempts have
\* failed is of a kind distinct from the error raised when the HAL rejects
\* an ordinary command, so a caller can tell the two apart by the kind of
\* the error alone.
C17_HeaterFailureIsDistinct ==
    (/\ harness = "worker"
     /\ ui.status \in FinalStatuses
     /\ heater.pc = "raised"
     /\ commandLog # <<>>
     /\ commandLog[Len(commandLog)].outcome = "rejected") =>
        /\ Len(ui.errors) = 2
        /\ ui.errors[1] = exc
        /\ ui.errors[2] # ui.errors[1]

\* Mock mode: the worker found no HAL port at start-up (its hal stays
\* None), the script was given --mock (its hal is a MockHal).
MockMode ==
    \/ harness = "worker" /\ hal = None
    \/ harness = "main" /\ hal = "MockHal"

\* C18: in mock mode a run of any protocol goes through all its steps with
\* every HAL command simulated locally and nothing sent to a socket, and it
\* ends as Completed unless it is cancelled; being in mock mode never makes
\* a step fail.
C18_MockModeNeverFails ==
    MockMode =>
        /\ \A i \in 1..Len(commandLog) : ~commandLog[i].sent
        /\ exc \in {None, "InterruptedError"}
        /\ (exc = None /\ stack = <<>> /\ trace # <<>>) =>
              trace = Expected(protocol, Observed)

----------------------------------------------------------------------------
(* The preview decoders: PreviewThread of preview.py (a bit-packed header  *)
(* of version, width, height, format and size) and of preview_widget.py (a *)
(* header of one uint32 size), reading from a stream socket whose peer     *)
(* sends frames and may close at any byte.                                 *)

\* PREVIEW_HEADER_SIZE: ceil(calcsize("u4u12u12u6u26") / 8).
PREVIEW_HEADER_SIZE == 8
\* s.recv(4): one uint32_t.
WIDGET_HEADER_SIZE == 4

HeaderSize(decoder) ==
    IF decoder = "preview" THEN PREVIEW_HEADER_SIZE ELSE WIDGET_HEADER_SIZE

\* The header bytes the peer writes for a version and a payload size (width,
\* height and format zero): the fields packed from the most significant
\* bit for preview.py, a little-endian uint32 for preview_widget.py.
PackHeader(decoder, version, size) ==
    IF decoder = "preview"
    THEN <<version * 16, 0, 0, 0,
           (size \div 1048576) % 64, (size \div 4096) % 256, (size \div 16) % 256,
           (size % 16) * 16>>
    ELSE <<size % 256, (size \div 256) % 256, (size \div 65536) % 256,
           (size \div 16777216) % 256>>

\* bitstruct.unpack(PREVIEW_HEADER_FORMAT, header) and struct.unpack("I", ...).
UnpackVersion(decoder, header) ==
    IF decoder = "preview" THEN header[1] \div 16 ELSE 0

UnpackSize(decoder, header) ==
    IF decoder = "preview"
    THEN (header[5] % 64) * 1048576 + header[6] * 4096 + header[7] * 16
         + header[8] \div 16
    ELSE header[1] + header[2] * 256 + header[3] * 65536 + header[4] * 16777216

\* The payload bytes of the index-th frame of a connection.
Payload(index, size) == [i \in 1..size |-> 16 * index + i]

Message(decoder, version, size, index) ==
    PackHeader(decoder, version, size) \o Payload(index, size)

VersionsOf(decoder) == IF decoder = "preview" THEN {0, 1} ELSE {0}

\* The exception a short or malformed header raises: the asserts of
\* preview.py, struct.error of preview_widget.py.
HeaderError(decoder) == IF decoder = "preview" THEN "AssertionError" ELSE "struct.error"

\* A faulty variant (C19): recv is asked for a whole buffer, whatever is
\* left of the payload.
ReadSizes_unbounded(bufsize, wire) ==
    IF wire = <<>> THEN {0} ELSE 1..Len(wire)

\* What s.recv(bufsize) may return: with data pending, at least one byte
\* and at most bufsize; the empty bytes once the peer has closed.
ReadSizes(bufsize, wire) ==
    IF wire = <<>> THEN {0} ELSE 1..Min(bufsize, Len(wire))

\* The except clauses of run: InterruptedError breaks the outer loop, every
\* other exception is printed and followed by the backoff.
PreviewFails(error) ==
    [preview EXCEPT !.pc = IF error = "InterruptedError" THEN "exited" ELSE "backoff",
                    !.error = error]

\* socket.socket(...) and s.connect: a new connection, or the exception of
\* a refused one.  The connections are counted up to MaxConnections.
PreviewConnect ==
    /\ harness = "preview"
    /\ preview.pc = "connect"
    /\ \E connected \in BOOLEAN :
         preview' = IF connected
                    THEN [preview EXCEPT !.pc = "header", !.wire = <<>>,
                                         !.closed = FALSE, !.sent = <<>>,
                                         !.frames = <<>>, !.image_bytes = <<>>,
                                         !.image_size = 0, !.error = None,
                                         !.connections = Min(@ + 1, MaxConnections)]
                    ELSE [PreviewFails("ConnectionRefusedError")
                             EXCEPT !.connections = Min(@ + 1, MaxConnections)]
    /\ UNCHANGED <<harness, imaging_args, hal, protocol, phase, interruptionRequested, stack,
                   run_state, exc, result, callback, progressLog, commandLog,
                   sleepLog, trace, heater, ui, calls, heap, contexts>>

Connected == harness = "preview" /\ preview.pc \in {"header", "payload"}

\* The peer writes one frame.
PeerSend(version, size) ==
    /\ Connected
    /\ ~preview.closed
    /\ Len(preview.sent) < MaxFrames
    /\ preview' = [preview EXCEPT
           !.wire = @ \o Message(preview.decoder, version, size, Len(preview.sent) + 1),
           !.sent = Append(@, [version |-> version, size |-> size, sent |-> size,
                               payload |-> Payload(Len(preview.sent) + 1, size)])]
    /\ UNCHANGED <<harness, imaging_args, hal, protocol, phase, interruptionRequested, stack,
                   run_state, exc, result, callback, progressLog, commandLog,
                   sleepLog, trace, heater, ui, calls, heap, contexts>>

\* The peer closes the connection after the first `written` bytes of one
\* more frame: at a header boundary (0), inside the header or inside the
\* payload.
PeerClose(version, size, written) ==
    /\ Connected
    /\ ~preview.closed
    /\ Len(preview.sent) < MaxFrames
    /\ written < HeaderSize(preview.decoder) + size
    /\ LET index == Len(preview.sent) + 1
           message == Message(preview.decoder, version, size, index)
       IN  preview' = [preview EXCEPT
               !.closed = TRUE,
               !.wire = @ \o SubSeq(message, 1, written),
               !.sent = IF written = 0 THEN @
                        ELSE Append(@, [version |-> version, size |-> size,
                                        sent |-> written - HeaderSize(preview.decoder),
                                        payload |-> Payload(index, size)])]
    /\ UNCHANGED <<harness, imaging_args, hal, protocol, phase, interruptionRequested, stack,
                   run_state, exc, result, callback, progressLog, commandLog,
                   sleepLog, trace, heater, ui, calls, heap, contexts>>

\* A faulty variant (C39): the version field is not looked at.
VersionAccepted_any(version) == TRUE

\* assert version == 0.
VersionAccepted(version) == version = 0

\* read_preview_image up to the payload loop: one recv of the header size,
\* the length check and the unpacking.
PreviewReadHeader ==
    /\ harness = "preview"
    /\ preview.pc = "header"
    /\ preview.wire # <<>> \/ preview.closed
    /\ \E n \in ReadSizes(HeaderSize(preview.decoder), preview.wire) :
         LET header == SubSeq(preview.wire, 1, n)
             rest == SubSeq(preview.wire, n + 1, Len(preview.wire))
             read == [preview EXCEPT !.wire = rest, !.reads = 1 - @]
         IN  preview' =
               IF Len(header) # HeaderSize(preview.decoder)
               THEN [PreviewFails(HeaderError(preview.decoder)) EXCEPT
                        !.wire = rest, !.reads = 1 - @]
               ELSE IF ~VersionAccepted(UnpackVersion(preview.decoder, header))
               THEN [PreviewFails("AssertionError") EXCEPT
                        !.wire = rest, !.reads = 1 - @]
               ELSE [read EXCEPT !.pc = "payload", !.image_bytes = <<>>,
                                 !.image_size = UnpackSize(preview.decoder, header)]
    /\ UNCHANGED <<harness, imaging_args, hal, protocol, phase, interruptionRequested, stack,
                   run_state, exc, result, callback, progressLog, commandLog,
                   sleepLog, trace, heater, ui, calls, heap, contexts>>

\* One pass of "while len(image_bytes) < image_size": the recv of what is
\* missing and the extend.
PreviewReadPayload ==
    /\ harness = "preview"
    /\ preview.pc = "payload"
    /\ Len(preview.image_bytes) < preview.image_size
    /\ preview.wire # <<>> \/ preview.closed
    /\ \E n \in ReadSizes(preview.image_size - Len(preview.image_bytes), preview.wire) :
         preview' = [preview EXCEPT
             !.image_bytes = @ \o SubSeq(preview.wire, 1, n),
             !.wire = SubSeq(@, n + 1, Len(@)),
             !.reads = 1 - @]
    /\ UNCHANGED <<harness, imaging_args, hal, protocol, phase, interruptionRequested, stack,
                   run_state, exc, result, callback, progressLog, commandLog,
                   sleepLog, trace, heater, ui, calls, heap, contexts>>

\* The loop is over: the image is built and received_image is emitted.
\* Image.open of preview_widget.py cannot identify an empty file.
PreviewEmit ==
    /\ harness = "preview"
    /\ preview.pc = "payload"
    /\ Len(preview.image_bytes) >= preview.image_size
    /\ preview' =
         IF preview.decoder = "preview_widget" /\ preview.image_bytes = <<>>
         THEN PreviewFails("UnidentifiedImageError")
         ELSE [preview EXCEPT !.pc = "header",
                              !.frames = Append(@, preview.image_bytes)]
    /\ UNCHANGED <<harness, imaging_args, hal, protocol, phase, interruptionRequested, stack,
                   run_state, exc, result, callback, progressLog, commandLog,
                   sleepLog, trace, heater, ui, calls, heap, contexts>>

\* The bare except of run: the traceback is printed, time.sleep(5), and the
\* outer loop connects again.
PreviewBackoff ==
    /\ harness = "preview"
    /\ preview.pc = "backoff"
    /\ preview' = [preview EXCEPT !.pc = "connect"]
    /\ UNCHANGED <<harness, imaging_args, hal, protocol, phase, interruptionRequested, stack,
                   run_state, exc, result, callback, progressLog, commandLog,
                   sleepLog, trace, heater, ui, calls, heap, contexts>>

PreviewThreadNext ==
    \/ PreviewConnect
    \/ PreviewReadHeader
    \/ PreviewReadPayload
    \/ PreviewEmit
    \/ PreviewBackoff

PeerNext ==
    \/ \E version \in VersionsOf(preview.decoder), size \in 0..MaxPayload :
          PeerSend(version, size)
    \/ \E version \in VersionsOf(preview.decoder), size \in 0..MaxPayload,
          written \in 0..(PREVIEW_HEADER_SIZE + MaxPayload) :
          PeerClose(version, size, written)

\* The thread, its peer, and the owner of the thread, which may call
\* requestInterruption() on it.
PreviewNext == PreviewThreadNext \/ PeerNext \/ Cancel

SpecPreview == InitOf("preview") /\ [][PreviewNext]_vars

\* The thread is scheduled: it goes on whenever it has a step to take.
SpecPreviewFair == SpecPreview /\ WF_vars(PreviewThreadNext)

\* The bytes of the frames index..Len(sent) as far as the peer wrote them.
RECURSIVE WrittenFrom(_)
WrittenFrom(index) ==
    IF index > Len(preview.sent) THEN <<>>
    ELSE SubSeq(Message(preview.decoder, preview.sent[index].version,
                        preview.sent[index].size, index),
                1, HeaderSize(preview.decoder) + preview.sent[index].sent)
         \o WrittenFrom(index + 1)

\* C19: for every declared payload length L and every way the transport
\* splits the L payload bytes into successive non-empty reads, the decoder
\* assembles exactly the L bytes that follow the header, in order, into one
\* frame, emits exactly one frame for that header, and reads no byte of the
\* next header into the payload.
C19_PayloadAssembled ==
    /\ [](Connected =>
            /\ \A i \in 1..Len(preview.frames) :
                  /\ i <= Len(preview.sent)
                  /\ preview.frames[i] = preview.sent[i].payload
                  /\ Len(preview.frames[i]) = preview.sent[i].size
            /\ preview.pc = "header" =>
                  preview.wire = WrittenFrom(Len(preview.frames) + 1)
            /\ preview.pc = "payload" =>
                  LET current == Len(preview.frames) + 1
                  IN  /\ current <= Len(preview.sent)
                      /\ preview.image_size = preview.sent[current].size
                      /\ Len(preview.image_bytes) <= preview.image_size
                      /\ IsPrefix(preview.image_bytes, preview.sent[current].payload)
                      /\ preview.image_bytes \o preview.wire =
                            SubSeq(preview.sent[current].payload, 1,
                                   preview.sent[current].sent)
                            \o WrittenFrom(current + 1))
    /\ [][(Connected /\ Len(preview'.frames) > Len(preview.frames)) =>
             /\ preview.pc = "payload"
             /\ preview'.pc = "header"
             /\ preview'.frames = Append(preview.frames, preview.image_bytes)
             /\ Len(preview.image_bytes) = preview.image_size
             /\ preview'.wire = preview.wire]_vars

\* A payload of MaxPayload bytes of which the first read brought all but the
\* last byte, with the whole next frame already written by the peer: the
\* byte and the next header are still to be read.
C19_Witness ==
    /\ harness = "preview"
    /\ preview.pc = "payload"
    /\ preview.image_size = MaxPayload
    /\ Len(preview.image_bytes) = MaxPayload - 1
    /\ Len(preview.sent) = 2
    /\ preview.sent[2].version = 0
    /\ Len(preview.wire) = 1 + HeaderSize(preview.decoder) + preview.sent[2].size

\* The next header on the wire is complete and carries a version other
\* than 0.
MalformedHeaderPending ==
    /\ preview.pc = "header"
    /\ Len(preview.wire) >= HeaderSize(preview.decoder)
    /\ UnpackVersion(preview.decoder, preview.wire) # 0

\* C20: after any stream error (the peer closing the connection at a header
\* boundary, inside a header or in the middle of a payload, or a malformed
\* header) the decoder eventually gives up the current connection, waits
\* the backoff interval and attempts a new connection; it never stays
\* forever on a connection that delivers no more data.
C20_StreamErrorReconnects ==
    (Connected /\ (preview.closed \/ MalformedHeaderPending)) ~> (preview.pc = "connect")

\* C21: the preview decoder's loop ends if and only if its caller has
\* signalled interruption: no stream error of any kind makes the loop exit,
\* and once the caller requests interruption the loop eventually exits.
C21_ExitsIffInterrupted ==
    /\ [](harness = "preview" =>
            (preview.pc = "exited" => interruptionRequested))
    /\ ((harness = "preview" /\ interruptionRequested) ~> (preview.pc = "exited"))

\* C38: the preview decoder emits the frames the peer sent, each exactly
\* once and in the order sent, however the transport splits the byte stream
\* into reads: a header that arrives in two or more reads is decoded as the
\* same header as when it arrives in one read, and the decoder stays aligned
\* on frame boundaries for the frames that follow.  So on a connection the
\* peer keeps open and on which it wrote only well-formed frames, the
\* decoder raises no error.
C38_SplitHeaderDecoded ==
    (/\ harness = "preview"
     /\ preview.pc = "backoff"
     /\ preview.error # "ConnectionRefusedError") =>
        \/ preview.closed
        \/ \E i \in 1..Len(preview.sent) :
              \/ preview.sent[i].version # 0
              \/ preview.decoder = "preview_widget" /\ preview.sent[i].size = 0

\* The header of the frame the decoder is to read next carries a version
\* other than 0.
NextVersionRejected ==
    /\ harness = "preview"
    /\ preview.pc = "header"
    /\ Len(preview.frames) < Len(preview.sent)
    /\ preview.sent[Len(preview.frames) + 1].version # 0

\* C39: a preview header whose version field is not 0 never leads to a
\* frame being emitted for that header: the decoder emits nothing for it,
\* treats it as a stream error and drops the connection, and the frames
\* emitted before it are unaffected.
C39_NonZeroVersionRejected ==
    /\ [](Connected =>
            \A i \in 1..Len(preview.sent) :
                preview.sent[i].version # 0 => Len(preview.frames) < i)
    /\ [][(NextVersionRejected /\ preview'.pc # preview.pc) =>
             /\ preview'.pc = "backoff"
             /\ preview'.error = "AssertionError"
             /\ preview'.frames = preview.frames]_vars
    /\ [][(harness = "preview" /\ preview.pc = "backoff" /\ preview' # preview) =>
             preview'.pc = "connect" /\ preview'.frames = preview.frames]_vars

\* A frame of version 0 was emitted, then the whole header of a frame of
\* version 1 was read: the decoder is in its backoff, the one frame
\* emitted, the second frame's payload unread.
C39_Witness ==
    /\ harness = "preview"
    /\ preview.decoder = "preview"
    /\ preview.pc = "backoff"
    /\ preview.error = "AssertionError"
    /\ ~preview.closed
    /\ Len(preview.sent) = 2
    /\ preview.sent[1].version = 0
    /\ preview.sent[2].version = 1
    /\ preview.sent[2].size = MaxPayload
    /\ preview.frames = <<preview.sent[1].payload>>
    /\ preview.wire = preview.sent[2].payload

\* C22: at most one run is active at a time on one engine instance: a
\* request to start a run while a run is still in progress is rejected as
\* an error, and it neither starts a second concurrent run nor is silently
\* dropped.
C22_StartWhileRunningRejected ==
    [][(harness = "worker" /\ phase # "idle" /\ ui.start /\ ~ui'.start) =>
          /\ stack' = stack
          /\ phase' = phase
          /\ trace' = trace
          /\ ui'.errors # <<>>]_vars

\* C31: pressing Start always leads to a run that executes and later
\* reports a final status: in every interleaving of the UI with the worker,
\* whenever the UI shows the status Running with Start disabled, a run is
\* executing or a final status of it is still to be delivered.
C31_RunningMeansRunInProgress ==
    (harness = "worker" /\ ui.status = "RUNNING" /\ ~ui.start) =>
        \/ phase = "running"
        \/ ui.signal # None

\* The step a path node refers to.
StepAt(line) == Nodes(protocol)[line + 1]

Dispatching == Running /\ Top.pc = "enter"

\* Whether a path is the chain of steps from the root to its last step,
\* each node but the last holding the index of the child that follows it.
IsChainFromRoot(path) ==
    /\ path[1].line = protocol.protocol_line
    /\ StepAt(path[1].line) = protocol
    /\ Len(path) = StepAt(path[Len(path)].line).protocol_depth + 1
    /\ \A i \in 1..(Len(path) - 1) :
          /\ path[i].step_index \in 0..(Len(StepAt(path[i].line).events) - 1)
          /\ StepAt(path[i].line).events[path[i].step_index + 1] = StepAt(path[i + 1].line)
          /\ path[i].iteration \in 0..(StepAt(path[i].line).iterations - 1)

\* C33: at every dispatch of a run started at the tree root, the context
\* path is the chain of steps from the root to the dispatched step: its
\* first node is the root's, its last the dispatched step's, each node's
\* step is a child of the step of the node before, the length is the step's
\* protocol_depth + 1, and every node but the last holds the index and the
\* iteration of the child that follows it.
C33_PathIsChainFromRoot ==
    /\ [](Dispatching =>
            /\ IsChainFromRoot(PathOf(stack))
            /\ stack[1].event = protocol
            /\ PathOf(stack)[Len(stack)].line = Top.event.protocol_line
            /\ \A i \in 1..(Len(stack) - 1) :
                  /\ stack[i].step_index = stack[i].ix
                  /\ stack[i].iteration = stack[i].it
                  /\ stack[i + 1].event = stack[i].event.events[stack[i].ix + 1])
    /\ [](\A i \in 1..Len(progressLog) :
            progressLog[i].what = "step" => IsChainFromRoot(progressLog[i].path))
    /\ [][(Dispatching /\ progressLog' # progressLog) =>
             progressLog' = Append(progressLog, [path |-> PathOf(stack), what |-> "step"])]_vars

\* The leaf of a container that is the child of the root, dispatched in the
\* second iteration of the root: a path of three nodes.
C33_Witness ==
    /\ Dispatching
    /\ Len(stack) = 3
    /\ Top.event.protocol_depth = 2
    /\ PathOf(stack)[1] = [line |-> 0, step_index |-> 0, iteration |-> 1]
    /\ PathOf(stack)[2].line = 1
    /\ PathOf(stack)[2].step_index = 0
    /\ PathOf(stack)[3] = [line |-> 2, step_index |-> NoneInt, iteration |-> NoneInt]

\* The filenames of a run in the order they were formatted.
RECURSIVE FilenamesOfAll(_)
FilenamesOfAll(log) ==
    IF log = <<>> THEN <<>> ELSE Head(log).filenames \o FilenamesOfAll(Tail(log))

\* C34: within one run the sequence numbers placed in filenames are
\* strictly increasing in the order the filenames are created, across all
\* ImageSequence images and all cleave commands of all iterations: no two
\* filenames of a run carry the same sequence number.
C34_FilenameNumbersIncrease ==
    LET filenames == FilenamesOfAll(commandLog)
    IN  /\ \A i, j \in 1..Len(filenames) :
              i < j => filenames[i].sequence_number < filenames[j].sequence_number
        /\ \A i \in 1..Len(filenames) :
              /\ filenames[i].sequence_number >= 0
              /\ filenames[i].sequence_number < run_state.sequence_number

\* Two iterations of a ReactionCycle over an ImageSequence of two images,
\* run to the end: six filenames, numbered 0 to 5, the cleaves' 2 and 5.
C34_Witness ==
    /\ Completed
    /\ protocol.kind = "ReactionCycle"
    /\ protocol.iterations = 2
    /\ Len(protocol.events) = 1
    /\ protocol.events[1].images = 2
    /\ Len(commandLog) = 4
    /\ Len(FilenamesOfAll(commandLog)) = 6
    /\ commandLog[2].command = "cleave"
    /\ commandLog[2].filenames = <<Filename(2, 0)>>
    /\ commandLog[3].filenames = <<Filename(3, 1), Filename(4, 1)>>
    /\ commandLog[4].filenames = <<Filename(5, 1)>>

Commands == {"run_image_sequence", "wait_for_temperature", "cleave"}

IsCommandItem(item) == item.what \in Commands

\* The command a step of this kind sends when it is dispatched (a
\* ReactionCycle: at each cleaving step).
CommandOf(kind) ==
    CASE kind = "ImageSequence" -> "run_image_sequence"
      [] kind = "SetTemperature" -> "wait_for_temperature"
      [] kind = "ReactionCycle" -> "cleave"
      [] OTHER -> None

\* C35: a step's hardware command is never retried: each dispatch of an
\* ImageSequence, a SetTemperature or a cleave action sends its command at
\* most once, and a failed command is followed by no second attempt of the
\* same command; only disable_heater is sent more than once for one
\* invocation.
C35_StepCommandsSentOnce ==
    /\ [](/\ trace # <<>> => IsPrefix(trace, Expected(protocol, Observed))
          /\ Len(commandLog) = Len(SelectSeq(trace, IsCommandItem))
          /\ \A i \in 1..Len(commandLog) :
                /\ commandLog[i].command =
                      SelectSeq(trace, IsCommandItem)[i].what
                /\ commandLog[i].line = SelectSeq(trace, IsCommandItem)[i].line
                /\ commandLog[i].command = CommandOf(StepAt(commandLog[i].line).kind)
                /\ ~CallReturns(commandLog[i].outcome) => i = Len(commandLog)
                /\ ~CallReturns(commandLog[i].outcome) /\ commandLog[i].outcome # "pending" =>
                      exc = ErrorOf(commandLog[i].outcome) /\ stack = <<>>)
    /\ [][Len(commandLog') <= Len(commandLog) + 1]_vars
    /\ [][(commandLog # <<>> /\ ~CallReturns(commandLog[Len(commandLog)].outcome)
             /\ commandLog[Len(commandLog)].outcome # "pending"
             /\ exc' = exc) =>
             commandLog' = commandLog /\ trace' = trace]_vars

\* A run of the worker whose one command the HAL rejected, after which
\* disable_heater was sent twice, its first attempt having failed.
C35_Witness ==
    /\ harness = "worker"
    /\ hal = "Hal"
    /\ exc = "HalError"
    /\ Len(commandLog) = 1
    /\ commandLog[1].sent
    /\ commandLog[1].outcome = "rejected"
    /\ heater.pc = "returned"
    /\ heater.sent = 2
    /\ heater.failed = 1

\* C36: each dispatch of an ImageSequence that declares m images reserves
\* exactly m sequence numbers, consecutive and in the declared order of the
\* images, gives one of them to each image's filename, tags every one of
\* the m filenames with the cycle_number current at dispatch, and then
\* issues exactly one run_image_sequence command carrying all m images.
C36_ImageSequenceReservesPerImage ==
    /\ [](\A i \in 1..Len(commandLog) :
            commandLog[i].command = "run_image_sequence" =>
                LET m == StepAt(commandLog[i].line).images
                    filenames == commandLog[i].filenames
                IN  /\ StepAt(commandLog[i].line).kind = "ImageSequence"
                    /\ Len(filenames) = m
                    /\ \A j \in 1..m :
                          /\ filenames[j].sequence_number =
                                filenames[1].sequence_number + j - 1
                          /\ filenames[j].cycle_number = commandLog[i].cycle_number)
    /\ [][(Running /\ Top.pc = "tag" /\ ContextStateIsRunState /\ hal # None
             /\ stack' # stack) =>
             LET m == Top.event.images
                 issued == commandLog'[Len(commandLog')]
             IN  /\ Len(commandLog') = Len(commandLog) + 1
                 /\ commandLog' = Append(commandLog, issued)
                 /\ issued.command = "run_image_sequence"
                 /\ issued.line = Top.event.protocol_line
                 /\ issued.filenames =
                       [j \in 1..m |-> Filename(run_state.sequence_number + j - 1,
                                                run_state.cycle_number)]
                 /\ issued.cycle_number = run_state.cycle_number
                 /\ imaging_args'[Top.event.protocol_line + 1] = issued.filenames
                 /\ run_state'.sequence_number = run_state.sequence_number + m
                 /\ run_state'.cycle_number = run_state.cycle_number
                 /\ trace' = Append(trace, Item("run_image_sequence", Top.event))]_vars

\* The second dispatch of an ImageSequence of two images in a Group of two
\* iterations: its command, not yet answered, carries the numbers 2 and 3.
C36_Witness ==
    /\ hal = "Hal"
    /\ protocol.kind = "Group"
    /\ Len(protocol.events) = 1
    /\ Running
    /\ Len(stack) = 2
    /\ Top.pc = "recv"
    /\ Top.event.images = 2
    /\ Len(commandLog) = 2
    /\ commandLog[1].filenames = <<Filename(0, 0), Filename(1, 0)>>
    /\ commandLog[2].filenames = <<Filename(2, 0), Filename(3, 0)>>
    /\ commandLog[2].outcome = "pending"
    /\ run_state.sequence_number = 4

\* C40: every run invocation executes with its own run state and with the
\* worker's cancellation signal as its cancel token: at the first dispatch
\* of every run, a second run of the same tree included, sequence_number
\* and cycle_number are both 0, and the counters of a finished run are
\* neither read nor changed by a later run.
C40_RunHasOwnStateAndToken ==
    /\ Running =>
          /\ ContextStateIsRunState
          /\ harness = "worker" => ContextThread # None
    /\ (Dispatching /\ Len(stack) = 1) => run_state = RunState
    /\ (harness = "worker" /\ hal = "Hal") => exc # "AttributeError"

----------------------------------------------------------------------------
(* The rerun harness: the engine run twice on one loaded tree, each time   *)
(* with a context built anew, against a Hal or a MockHal, with a callback  *)
(* registered on the root and a cancel token.                              *)

\* A faulty variant (C23): the root node of the previous run is used again.
RootFrame_reused(event, log) ==
    IF log = <<>> THEN Frame(event)
    ELSE [Frame(event) EXCEPT !.step_index = log[Len(log)].path[1].step_index,
                              !.iteration = log[Len(log)].path[1].iteration]

\* RunContext([RunContextNode(protocol)], ...): the path of a run starts
\* with a node made for that run, whatever was notified (log) before.
RootFrame(event, log) == Frame(event)

\* protocol.run called once more on the same tree after it has returned or
\* raised; calls keeps what the first run did.
EngineRerun ==
    /\ harness = "engine"
    /\ phase = "returned"
    /\ Len(calls) < MaxRuns - 1
    /\ calls' = Append(calls, [progress |-> progressLog, trace |-> trace,
                               exc |-> exc, run_state |-> run_state])
    /\ stack' = <<RootFrame(protocol, progressLog)>>
    /\ phase' = "running"
    /\ FreshRun(<<Item("run", protocol)>>)
    /\ UNCHANGED <<harness, imaging_args, preview, heap, contexts, hal, protocol, interruptionRequested,
                   callback, ui>>

RerunNext ==
    \/ \E d \in Descriptions : EngineRun(d)
    \/ EngineRerun
    \/ Cancel
    \/ EngineReturn
    \/ EventRun
    \/ ContainerStep
    \/ ContainerReturn
    \/ RunImageSequence
    \/ RunSetTemperature
    \/ RunCleave
    \/ HalRecv
    \/ WaitSlice

SpecRerun == InitOf("engine") /\ [][RerunNext]_vars

\* The thread that runs the engine is scheduled: a run goes on whenever it
\* has a step to take.
SpecRerunFair == SpecRerun /\ WF_vars(EngineNext)

\* A step of the run is in the poll loop of run_command, called with a
\* thread.
Polling ==
    /\ Running
    /\ ContextThread # None
    /\ Top.pc \in {"recv", "cleave_recv"}

\* C29: once cancellation is requested while run_command (called with a
\* cancel token) is waiting for a response, at most the read attempt
\* already in progress runs to its end; no new read attempt is started
\* after the request, and the call ends after that attempt, so a step
\* blocked on an unresponsive HAL always ends once cancellation is
\* requested.
C29_CancelEndsThePoll ==
    /\ [][(Polling /\ interruptionRequested) =>
             /\ commandLog' = SetOutcome(commandLog, "empty")
             /\ ~(stack' # <<>> /\ Len(stack') = Len(stack)
                    /\ Top'.pc = Top.pc /\ Top'.try_count > Top.try_count)
             /\ ~Polling']_vars
    /\ ((Polling /\ interruptionRequested) ~> ~Polling)

\* A wait_for_temperature command whose first read timed out, ended by a
\* cancellation without another read.
C29_Witness ==
    /\ harness = "engine"
    /\ hal = "Hal"
    /\ interruptionRequested
    /\ protocol.kind = "SetTemperature"
    /\ phase = "running"
    /\ stack = <<>>
    /\ Len(commandLog) = 1
    /\ commandLog[1].sent
    /\ commandLog[1].outcome = "empty"

\* C23: two uncancelled runs of the same protocol tree against a mock
\* transport produce the same sequence of progress notifications: the same
\* steps in the same order, each with the same context path (same steps,
\* step_index and iteration values on the path), whatever the timing of the
\* two runs.
C23_MockRunsRepeat ==
    (harness = "engine" /\ hal = "MockHal" /\ calls # <<>> /\ calls[1].exc = None) =>
        /\ exc = None => IsPrefix(progressLog, calls[1].progress)
        /\ (phase = "returned" /\ exc = None) =>
              /\ progressLog = calls[1].progress
              /\ trace = calls[1].trace
              /\ run_state = calls[1].run_state

\* A ReactionCycle of two iterations run twice to its end against a MockHal:
\* five notifications each time.
C23_Witness ==
    /\ harness = "engine"
    /\ hal = "MockHal"
    /\ calls # <<>>
    /\ calls[1].exc = None
    /\ phase = "returned"
    /\ exc = None
    /\ protocol.kind = "ReactionCycle"
    /\ protocol.iterations = 2
    /\ Len(protocol.events) = 1
    /\ Len(progressLog) = 5
    /\ progressLog[5].what = "cleave"
    /\ progressLog[5].path[1].iteration = 1

\* C24: in every run performed by the protocol worker, the progress
\* callback is registered on the root step before the first dispatch and is
\* cleared (None) once the run has ended, whether the run completed, was
\* cancelled or failed; between two runs the root step holds no callback
\* and no progress notification is delivered.
C24_CallbackOnlyDuringRun ==
    /\ [](harness = "worker" =>
            /\ callback <=> phase = "running"
            /\ (phase = "running" /\ trace = <<Item("run", protocol)>>) =>
                  callback /\ progressLog = <<>>
            /\ (stack # <<>> /\ Top.pc # "enter") => progressLog # <<>>)
    /\ [][(harness = "worker" /\ phase = "running" /\ phase' # "running") =>
             /\ stack = <<>>
             /\ ~callback'
             /\ result' = StatusOf(exc)]_vars
    /\ [][(harness = "worker" /\ ~callback) =>
             progressLog' \in {progressLog, <<>>}]_vars

\* A run of the worker that failed on a rejected command after two
\* notifications: the callback is cleared.
C24_Witness ==
    /\ harness = "worker"
    /\ phase \in {"emitted", "idle"}
    /\ result = "FAILED"
    /\ exc = "HalError"
    /\ Len(progressLog) = 2
    /\ ~callback

\* C26: running a protocol changes no field of any Step of the tree: after
\* a run has ended (with any outcome) every step, including the
\* imaging_args of every ImageSequence and the cleaving arguments of every
\* ReactionCycle, equals the step as it was right after load, so a second
\* run starts from the same tree as the first.
C26_RunLeavesTreeUnchanged ==
    /\ [](stack = <<>> => imaging_args = ImagingArgsOf(protocol))
    /\ [][stack # <<>> => protocol' = protocol]_vars

\* C27: disable_heater returns normally only if one of its attempts
\* received a response from the HAL whose success indicator is true; this
\* holds for every state of the cancel token it is given, including a token
\* on which cancellation has already been requested when disable_heater is
\* called after a stopped run.
C27_HeaterReturnsOnlyOnSuccess ==
    (hal = "Hal" /\ heater.pc = "returned") =>
        /\ heater.last = "ok"
        /\ heater.sent >= 1

\* C28: every call of disable_heater with tries = n terminates, either by
\* returning after a successful attempt or by raising after n failed
\* attempts, and makes no attempt after a successful one; this holds also
\* when the HAL accepts the connection but never sends a response, both
\* when a cancel token is passed and when none is passed (token None, as in
\* the command-line runner).
C28_HeaterTerminates ==
    /\ [](harness = "heater" =>
            /\ heater.pc = "raised" => heater.failed = heater.tries
            /\ heater.last = "ok" => heater.pc = "returned")
    /\ [][(harness = "heater" /\ heater.last = "ok") => heater'.sent = heater.sent]_vars
    /\ ((harness = "heater" /\ heater.pc # "idle") ~> HeaterOver)

----------------------------------------------------------------------------
(* The loader harness: load_protocol_json applied to every description of  *)
(* up to MaxLoadNodes nodes.                                               *)

\* A node whose event_type is none of the five kinds.
UnsupportedDesc == Desc("Unsupported", <<>>, 1, 0, 0)

LoaderLeafDescs == {WaitDesc(0), ImageSequenceDesc(1), SetTemperatureDesc, UnsupportedDesc}

LoaderDescriptions == UNION {DescsOfSize(LoaderLeafDescs, n) : n \in 1..MaxLoadNodes}

\* load_protocol_json(protocol_json): protocol_line 0, depth 0.  The caller
\* gets the tree and the count, or the exception and nothing else.
Load(d) ==
    /\ harness = "loader"
    /\ phase = "init"
    /\ LET loaded == load_protocol_json(d, 0, 0)
       IN  IF IsRaised(loaded[1])
           THEN /\ exc' = loaded[1].raised
                /\ phase' = "raised"
                /\ calls' = <<[json |-> d, returned |-> NoneInt]>>
                /\ UNCHANGED <<protocol, imaging_args>>
           ELSE /\ protocol' = loaded[1]
                /\ imaging_args' = ImagingArgsOf(loaded[1])
                /\ calls' = <<[json |-> d, returned |-> loaded[2]]>>
                /\ phase' = "returned"
                /\ UNCHANGED exc
    /\ UNCHANGED <<harness, preview, heap, contexts, hal, interruptionRequested, stack, run_state, result,
                   callback, progressLog, commandLog, sleepLog, trace, heater, ui>>

SpecLoad == InitOf("loader") /\ [][\E d \in LoaderDescriptions : Load(d)]_vars

\* The number of nodes of a description.
RECURSIVE DescSize(_)
RECURSIVE DescSizeOfAll(_)
DescSizeOfAll(events) ==
    IF events = <<>> THEN 0 ELSE DescSize(Head(events)) + DescSizeOfAll(Tail(events))
DescSize(d) == 1 + DescSizeOfAll(d.events)

Loaded == harness = "loader" /\ phase = "returned"

\* C9: for every valid description with N nodes, load_protocol_json called
\* on the root with protocol_line 0 and depth 0 numbers the nodes 0, 1, ...,
\* N-1 in pre-order, and the count it returns is N.
C9_LinesArePreorder ==
    Loaded =>
        LET nodes == Nodes(protocol)
            N == DescSize(calls[1].json)
        IN  /\ Len(nodes) = N
            /\ \A i \in 1..Len(nodes) : nodes[i].protocol_line = i - 1
            /\ calls[1].returned = N

\* A container whose first child has a child of its own and is followed by a
\* sibling: the sibling's line skips the first child's subtree.
C9_Witness ==
    /\ Loaded
    /\ Len(protocol.events) = 2
    /\ Len(protocol.events[1].events) = 1
    /\ protocol.events[2].protocol_line = 3
    /\ calls[1].returned = 4

\* Whether a description holds a node, at any depth, whose event_type is
\* none of the five kinds.
RECURSIVE HasUnsupported(_)
RECURSIVE AnyHasUnsupported(_)
AnyHasUnsupported(events) ==
    IF events = <<>> THEN FALSE
    ELSE HasUnsupported(Head(events)) \/ AnyHasUnsupported(Tail(events))
HasUnsupported(d) ==
    \/ d.event_type \notin {"ReactionCycle", "Group", "ImageSequence", "SetTemperature", "Wait"}
    \/ AnyHasUnsupported(d.events)

\* C25: load_protocol_json on a description in which any node, at any depth
\* and at any position among its siblings, has an event_type outside the
\* five known kinds raises an error and returns no tree at all, neither the
\* nodes loaded before the bad node nor a tree without it.
C25_UnsupportedKindAbortsLoad ==
    (harness = "loader" /\ calls # <<>>) =>
        IF HasUnsupported(calls[1].json)
        THEN /\ phase = "raised"
             /\ exc = "ValueError"
             /\ protocol = NoProtocol
             /\ calls[1].returned = NoneInt
        ELSE /\ phase = "returned"
             /\ exc = None
             /\ Len(Nodes(protocol)) = DescSize(calls[1].json)

\* A bad node that is the last child of a container's second child, after
\* two nodes that load: nothing is returned.
C25_Witness ==
    /\ harness = "loader"
    /\ phase = "raised"
    /\ exc = "ValueError"
    /\ protocol = NoProtocol
    /\ Len(calls[1].json.events) = 2
    /\ calls[1].json.events[1].event_type = "Wait"
    /\ calls[1].json.events[2].event_type = "Group"
    /\ Len(calls[1].json.events[2].events) = 1
    /\ calls[1].json.events[2].events[1].event_type = "Unsupported"

RECURSIVE EventLen(_)
RECURSIVE EventLenOfAll(_)
EventLenOfAll(events) ==
    IF events = <<>> THEN 0 ELSE EventLen(Head(events)) + EventLenOfAll(Tail(events))

\* A faulty variant (C37): the cleave action of a ReactionCycle is counted
\* as a node.
EventLen_counting_cleave(event) ==
    1 + EventLenOfAll(event.events) + (IF event.kind = "ReactionCycle" THEN 1 ELSE 0)

\* Event.__len__ (1) and its overrides in ReactionCycle and Group:
\* sum(map(len, self.events)) + 1.
EventLen(event) == 1 + EventLenOfAll(event.events)

\* Whether the subtree event is what load_protocol_json returns for the
\* description d at that line and depth, with len(event) as its count, and
\* its children are numbered from line + 1, each after the subtree of the
\* sibling before it, one level deeper.
RECURSIVE NumberedAsLoaded(_, _, _, _)
NumberedAsLoaded(d, event, line, depth) ==
    /\ load_protocol_json(d, line, depth) = <<event, EventLen(event)>>
    /\ event.protocol_line = line
    /\ event.protocol_depth = depth
    /\ Len(event.events) = Len(d.events)
    /\ \A i \in 1..Len(event.events) :
          /\ event.events[i].protocol_line =
                IF i = 1 THEN event.protocol_line + 1
                ELSE event.events[i - 1].protocol_line + EventLen(event.events[i - 1])
          /\ event.events[i].protocol_depth = event.protocol_depth + 1
          /\ NumberedAsLoaded(d.events[i], event.events[i],
                              event.events[i].protocol_line, depth + 1)

\* C37: in every loaded tree the protocol_line of a container's first child
\* is the container's protocol_line + 1, the protocol_line of each later
\* child is the previous sibling's protocol_line plus len(previous
\* sibling), len(step) equals the node count load returned for that subtree
\* (the step and all its descendants, no cleave action counted), every
\* child's depth is its parent's depth + 1, and iterating the tree yields
\* the steps in increasing protocol_line order, the k-th step yielded
\* having protocol_line k.
C37_LinesLenAndIterationAgree ==
    Loaded =>
        /\ NumberedAsLoaded(calls[1].json, protocol, 0, 0)
        /\ EventLen(protocol) = calls[1].returned
        /\ Len(Nodes(protocol)) = EventLen(protocol)
        /\ \A k \in 1..Len(Nodes(protocol)) : Nodes(protocol)[k].protocol_line = k - 1
        /\ \A k \in 1..Len(Nodes(protocol)) :
              EventLen(Nodes(protocol)[k]) = Len(Nodes(Nodes(protocol)[k]))

\* A ReactionCycle whose first child is a Group of one child and whose
\* second child is a leaf: the leaf's line is the Group's line plus the
\* Group's len, and the cycle's len is 4.
C37_Witness ==
    /\ Loaded
    /\ protocol.kind = "ReactionCycle"
    /\ Len(protocol.events) = 2
    /\ protocol.events[1].kind = "Group"
    /\ EventLen(protocol.events[1]) = 2
    /\ protocol.events[1].events[1].protocol_depth = 2
    /\ protocol.events[2].protocol_line = 3
    /\ EventLen(protocol) = 4
    /\ calls[1].returned = 4

----------------------------------------------------------------------------
(* The counter harness: get_next_sequence_number called on a fresh         *)
(* RunState up to MaxCalls times with reserve in 1..MaxReserve.            *)

CounterCall(reserve) ==
    /\ harness = "counter"
    /\ Len(calls) < MaxCalls
    /\ run_state' = get_next_sequence_number(run_state, reserve).state
    /\ calls' = Append(calls, [reserve |-> reserve,
                               returned |-> get_next_sequence_number(run_state, reserve).returned])
    /\ UNCHANGED <<harness, imaging_args, preview, heap, contexts, hal, protocol, phase, interruptionRequested, stack, exc,
                   result, callback, progressLog, commandLog, sleepLog, trace, heater, ui>>

SpecCounter == InitOf("counter") /\ [][\E k \in 1..MaxReserve : CounterCall(k)]_vars

RECURSIVE SumReserved(_, _)
SumReserved(log, n) == IF n = 0 THEN 0 ELSE log[n].reserve + SumReserved(log, n - 1)

\* C10: starting from a fresh run state, n calls of
\* get_next_sequence_number(reserve = k_i), k_i >= 1, return the starts of n
\* ranges [r_i, r_i + k_i) that are pairwise disjoint, each beginning where
\* the one before ended and the first at 0, and sequence_number ends as the
\* sum of the k_i.
C10_RangesAreContiguous ==
    harness = "counter" =>
        /\ \A i \in 1..Len(calls) : calls[i].returned = SumReserved(calls, i - 1)
        /\ \A i, j \in 1..Len(calls) :
              i < j => calls[i].returned + calls[i].reserve <= calls[j].returned
        /\ run_state.sequence_number = SumReserved(calls, Len(calls))

C10_Witness ==
    /\ harness = "counter"
    /\ Len(calls) = MaxCalls
    /\ calls[1].reserve = 2
    /\ calls[2].reserve = 1
    /\ calls[3].returned = 3
    /\ run_state.sequence_number > MaxCalls

----------------------------------------------------------------------------
(* The heater harness: Hal.disable_heater called with tries in 1..MaxTries,*)
(* with and without a thread.                                              *)

HeaterCall(thread, tries) ==
    /\ harness = "heater"
    /\ phase = "init"
    /\ phase' = "finally"
    /\ heater' = disable_heater(thread, tries)
    /\ UNCHANGED <<harness, imaging_args, preview, heap, contexts, hal, protocol, interruptionRequested, stack, run_state, exc,
                   result, callback, progressLog, commandLog, sleepLog, trace, ui, calls>>

HeaterHarnessNext ==
    \/ \E thread \in {None, "thread"}, tries \in 1..MaxTries : HeaterCall(thread, tries)
    \/ Cancel
    \/ HeaterNext

SpecHeater == InitOf("heater") /\ [][HeaterHarnessNext]_vars

\* The caller of disable_heater is scheduled: the call goes on whenever it
\* has a step to take.
SpecHeaterFair == SpecHeater /\ WF_vars(HeaterNext)

\* C4: for every tries = n >= 1, disable_heater on a transport on which
\* every attempt fails makes exactly n attempts, one after the other with
\* the delay after each failed one, and then raises; it never raises before
\* the n-th attempt has failed and never makes an (n+1)-th attempt.
C4_ExactlyTriesAttempts ==
    harness = "heater" =>
        /\ heater.attempt <= heater.tries
        /\ heater.sent = heater.attempt
        /\ heater.pc = "raised" =>
              /\ heater.attempt = heater.tries
              /\ heater.failed = heater.tries
              /\ heater.sleeps = heater.tries
        /\ (heater.pc # "idle" /\ heater.failed = heater.tries) =>
              heater.pc \in {"sleep", "raised"}
        /\ heater.pc = "send" => heater.sleeps = heater.attempt /\ heater.failed = heater.attempt
        /\ heater.pc = "recv" => heater.sleeps = heater.attempt - 1
                                 /\ heater.failed = heater.attempt - 1

C4_Witness ==
    /\ harness = "heater"
    /\ heater.pc = "raised"
    /\ heater.tries = MaxTries
    /\ heater.failed = MaxTries
    /\ heater.last = "rejected"

----------------------------------------------------------------------------
(* The poll harness: Hal.run_command called with a thread and tries in     *)
(* 1..MaxBudget; calls holds the call, its try_count and the reads made.   *)

\* run_command(command, thread, tries) up to the poll loop.
PollCall(tries) ==
    /\ harness = "poll"
    /\ phase = "init"
    /\ phase' = "running"
    /\ calls' = <<[tries |-> tries, try_count |-> 0, reads |-> 0, outcome |-> "pending"]>>
    /\ UNCHANGED <<harness, imaging_args, preview, heap, contexts, hal, protocol,
                   interruptionRequested, stack, run_state, exc, result, callback,
                   progressLog, commandLog, sleepLog, trace, heater, ui>>

\* One pass of the loop condition and, where it holds, of the read; the
\* else branch and the end of the call otherwise.
PollRecv ==
    /\ harness = "poll"
    /\ phase = "running"
    /\ \E outcome \in RecvOutcomes("thread", calls[1].try_count, calls[1].tries) :
         IF outcome = "timeout"
         THEN /\ calls' = [calls EXCEPT ![1].try_count = @ + 1, ![1].reads = @ + 1]
              /\ UNCHANGED <<phase, exc>>
         ELSE /\ calls' = [calls EXCEPT ![1].outcome = outcome,
                                        ![1].reads = IF outcome \in CompleteOutcomes
                                                     THEN @ + 1 ELSE @]
              /\ phase' = "returned"
              /\ exc' = IF CallReturns(outcome) THEN None ELSE ErrorOf(outcome)
    /\ UNCHANGED <<harness, imaging_args, preview, heap, contexts, hal, protocol,
                   interruptionRequested, stack, run_state, result, callback,
                   progressLog, commandLog, sleepLog, trace, heater, ui>>

PollNext ==
    \/ \E tries \in 1..MaxBudget : PollCall(tries)
    \/ PollRecv
    \/ Cancel

SpecPoll == InitOf("poll") /\ [][PollNext]_vars

\* C30: run_command called with a cancel token and a finite read budget of
\* n poll attempts raises a timeout error exactly when n consecutive read
\* attempts have timed out without cancellation being observed, and that
\* error propagates and aborts the run like a HAL rejection; a response
\* that arrives during one of the first n attempts is parsed and returned
\* instead, and no timeout is raised before the n-th attempt has timed out.
C30_TimeoutAfterBudget ==
    (harness = "poll" /\ calls # <<>>) =>
        LET call == calls[1]
        IN  /\ call.try_count <= call.tries
            /\ call.reads <= call.tries
            /\ call.outcome = "TimeoutError" <=>
                  (phase = "returned" /\ call.try_count = call.tries)
            /\ call.outcome = "TimeoutError" =>
                  /\ call.reads = call.tries
                  /\ exc = "TimeoutError"
                  /\ ~CallReturns(call.outcome)
            /\ call.outcome \in CompleteOutcomes =>
                  /\ call.try_count < call.tries
                  /\ call.reads = call.try_count + 1
                  /\ exc = IF call.outcome = "ok" THEN None ELSE "HalError"
            /\ call.outcome = "empty" =>
                  /\ interruptionRequested
                  /\ call.try_count < call.tries
                  /\ call.reads = call.try_count

\* A budget of three reads, all timed out: the TimeoutError after the third.
C30_Witness ==
    /\ harness = "poll"
    /\ phase = "returned"
    /\ calls[1].tries = 3
    /\ calls[1].reads = 3
    /\ calls[1].outcome = "TimeoutError"
    /\ exc = "TimeoutError"
    /\ ~interruptionRequested

----------------------------------------------------------------------------
(* The wait harness: a Wait step of every duration up to MaxWaitHalves     *)
(* half slices, run by the engine with a cancel token.                     *)

WaitDescriptions == {WaitDesc(k * (SliceMs \div 2)) : k \in 0..MaxWaitHalves}

WaitHarnessNext ==
    \/ \E d \in WaitDescriptions : EngineRun(d)
    \/ Cancel
    \/ EventRun
    \/ WaitSlice
    \/ EngineReturn

SpecWait == InitOf("engine") /\ [][WaitHarnessNext]_vars

RECURSIVE SumMs(_)
SumMs(log) == IF log = <<>> THEN 0 ELSE Head(log).ms + SumMs(Tail(log))

Sleeping == Running /\ Top.pc = "sleep" /\ Top.remaining > 0

\* C6: a Wait step run with a cancel token sleeps in slices of at most
\* 1000 ms and checks the token after every slice: a cancellation requested
\* during a slice makes the step raise at the end of that slice, with no
\* further slice; with no cancellation the slices sum to duration_ms.
C6_WaitSlices ==
    /\ [](/\ \A i \in 1..Len(sleepLog) : sleepLog[i].ms \in 1..SliceMs
          /\ (Running /\ Top.pc = "sleep") =>
                SumMs(sleepLog) + Top.remaining = protocol.duration_ms
          /\ (phase = "returned" /\ exc = None) =>
                SumMs(sleepLog) = protocol.duration_ms)
    /\ [][(Sleeping /\ interruptionRequested) =>
             /\ exc' = "InterruptedError"
             /\ Len(sleepLog') = Len(sleepLog) + 1
             /\ stack' = <<>>]_vars
    /\ [][(Sleeping /\ ~interruptionRequested /\ sleepLog' # sleepLog) =>
             /\ exc' = None
             /\ Len(sleepLog') = Len(sleepLog) + 1
             /\ Top'.remaining = Top.remaining - sleepLog'[Len(sleepLog')].ms]_vars
    /\ [][exc # None => sleepLog' = sleepLog]_vars

\* A Wait of 10000 ms cancelled during its third slice: three slices, not ten.
C6_Witness ==
    /\ harness = "engine"
    /\ protocol.kind = "Wait"
    /\ protocol.duration_ms = 10 * SliceMs
    /\ exc = "InterruptedError"
    /\ Len(sleepLog) = 3
    /\ SumMs(sleepLog) = 3 * SliceMs

====
